---- MODULE Spec2Model ----
(***************************************************************************)
(* Precinct harmonization: the spatial crosswalk builder                   *)
(* (src/src/crosswalk.py), the vote reallocator and its multi-year driver  *)
(* (src/src/harmonize.py), the loaders they use (src/src/io_utils.py) and  *)
(* the swing metrics (src/src/metrics.py).                                 *)
(*                                                                         *)
(* SpecXW runs build_crosswalk, Spec reallocate_votes_to_base, SpecAll     *)
(* harmonize_all, SpecPar two calls of reallocate_votes_to_base at once,   *)
(* SpecVal validate_crosswalk and SpecMetrics compute_two_party_metrics    *)
(* and county_aggregates, the latter two on long tables that hold each     *)
(* polygon-year at most once.                                              *)
(*                                                                         *)
(* Geometry is a strip of unit cells: a polygon is a set of cells, its     *)
(* area the number of cells, and a collection is a row of adjacent,        *)
(* non-overlapping polygons.  Floating-point columns are exact rationals   *)
(* [n, d]; d = 0 stands for the IEEE values NaN (n = 0) and +-inf.         *)
(* Identifier columns are tuples of characters.  Column names are taken    *)
(* to differ between the past and the base collection.                     *)
(***************************************************************************)
EXTENDS Integers, Sequences, FiniteSets, TLC

\* ------------------------------------------------------------------ bounds

\* cells of the strip in direct build_crosswalk calls with weight="area"
XwCells == 5
\* cells of the strip in population-weighted calls
BlockCells == 2
\* cells of the strip in harmonization
NumCells == 3
\* largest D_votes in a results file
MaxVotes == 3
\* largest population of a census block
MaxPop == 2
\* base polygons a crosswalk handed to validate_crosswalk may name
MaxSplits == 2
\* election years of the table handed to the metrics
NumYears == 3

\* ------------------------------------------------------------- arithmetic

RECURSIVE GCD(_, _)
GCD(a, b) == IF b = 0 THEN a ELSE GCD(b, a % b)

Abs(x) == IF x < 0 THEN -x ELSE x

Sign(x) == IF x < 0 THEN -1 ELSE IF x > 0 THEN 1 ELSE 0

NaN == [n |-> 0, d |-> 0]

IsNaN(q) == q.d = 0 /\ q.n = 0

IsFinite(q) == q.d > 0

\* the float n/d, reduced; x/0 is +-inf and 0/0 is NaN as in numpy
Rat(n, d) ==
    IF d = 0 THEN [n |-> Sign(n), d |-> 0]
    ELSE LET g == GCD(Abs(n), Abs(d))
             s == IF d < 0 THEN -1 ELSE 1
         IN  [n |-> s * (n \div g), d |-> s * (d \div g)]

RInt(k) == [n |-> k, d |-> 1]

RAdd(a, b) ==
    IF IsNaN(a) \/ IsNaN(b) THEN NaN
    ELSE IF a.d = 0 /\ b.d = 0 THEN (IF a.n = b.n THEN a ELSE NaN)
    ELSE IF a.d = 0 THEN a
    ELSE IF b.d = 0 THEN b
    ELSE Rat(a.n * b.d + b.n * a.d, a.d * b.d)

RMul(a, b) ==
    IF IsNaN(a) \/ IsNaN(b) THEN NaN
    ELSE IF a.d = 0 \/ b.d = 0
         THEN [n |-> Sign(a.n) * Sign(b.n), d |-> 0]
    ELSE Rat(a.n * b.n, a.d * b.d)

RDiv(a, b) ==
    IF IsNaN(a) \/ IsNaN(b) THEN NaN
    ELSE IF a.d = 0 THEN (IF b.d = 0 THEN NaN
                          ELSE [n |-> a.n * (IF b.n < 0 THEN -1 ELSE 1), d |-> 0])
    ELSE IF b.d = 0 THEN RInt(0)
    ELSE Rat(a.n * b.d, a.d * b.n)

RLess(a, b) == IsFinite(a) /\ IsFinite(b) /\ a.n * b.d < b.n * a.d

RLeq(a, b) == IsFinite(a) /\ IsFinite(b) /\ a.n * b.d <= b.n * a.d

RMin(a, b) == IF IsNaN(a) THEN b ELSE IF IsNaN(b) THEN a
              ELSE IF RLeq(a, b) THEN a ELSE b

\* Series.round(): numpy rounds halves to the even neighbour
RoundFloor(q) == q.n \div q.d

RoundHalfEven(q) ==
    LET f == q.n \div q.d
        r == q.n % q.d
    IN  IF 2 * r < q.d THEN f
        ELSE IF 2 * r > q.d THEN f + 1
        ELSE IF f % 2 = 0 THEN f ELSE f + 1

\* sum of a float column, skipping NaN as pandas sums do
RECURSIVE RSum(_)
RSum(s) == IF s = <<>> THEN RInt(0)
           ELSE IF IsNaN(Head(s)) THEN RSum(Tail(s))
           ELSE RAdd(Head(s), RSum(Tail(s)))

RECURSIVE ISum(_)
ISum(s) == IF s = <<>> THEN 0 ELSE Head(s) + ISum(Tail(s))

Column(tab, f) == [k \in 1..Len(tab) |-> tab[k][f]]

RECURSIVE Distinct(_)
Distinct(s) == IF s = <<>> THEN <<>>
               ELSE LET h == Head(s)
                        IsOther(x) == x # h
                    IN  <<h>> \o Distinct(SelectSeq(Tail(s), IsOther))

Range(s) == {s[k] : k \in 1..Len(s)}

\* ------------------------------------------------------------ identifiers

Whitespace == {" "}

Upper(c) == CASE c = "p" -> "P" [] c = "b" -> "B" [] OTHER -> c

RECURSIVE LStrip(_)
LStrip(s) == IF s # <<>> /\ Head(s) \in Whitespace THEN LStrip(Tail(s)) ELSE s

RECURSIVE RStrip(_)
RStrip(s) == IF s # <<>> /\ s[Len(s)] \in Whitespace
             THEN RStrip(SubSeq(s, 1, Len(s) - 1)) ELSE s

NoNormalizeId(s) == s

\* one element of ensure_id_consistency: astype(str).str.strip().str.upper()
NormalizeId(s) == LET t == RStrip(LStrip(s)) IN [k \in 1..Len(t) |-> Upper(t[k])]

ensure_id_consistency(ids) == [k \in 1..Len(ids) |-> NormalizeId(ids[k])]

\* --------------------------------------------------------------- geometry

Area(g) == Cardinality(g)

\* polygons that share a boundary and no interior
Touches(g, h) == g \cap h = {} /\ \E c \in g : c + 1 \in h \/ c - 1 \in h

Min(S) == CHOOSE x \in S : \A y \in S : x <= y

\* the adjacent polygons that tile lo..hi, cut after each cell of cuts
RECURSIVE Pieces(_, _, _)
Pieces(lo, hi, cuts) ==
    IF cuts = {} THEN <<lo..hi>>
    ELSE LET c == Min(cuts) IN <<lo..c>> \o Pieces(c + 1, hi, cuts \ {c})

\* the geometry columns a collection over cells 1..N can have
Geometries(N) ==
    UNION { UNION { { Pieces(lo, hi, cuts) : cuts \in SUBSET (lo..(hi - 1)) }
                    : hi \in lo..N }
            : lo \in 1..N }

\* collections that start at the first cell, and that end at the last one
PrefixGeometries(N) ==
    UNION { { Pieces(1, hi, cuts) : cuts \in SUBSET (1..(hi - 1)) } : hi \in 1..N }

SuffixGeometries(N) ==
    UNION { { Pieces(lo, N, cuts) : cuts \in SUBSET (lo..(N - 1)) } : lo \in 1..N }

\* a GeoDataFrame: its CRS, its column names, and one [id, geom] per feature
Gdf(crs, idcol, ids, geoms) ==
    [crs |-> crs, columns |-> {idcol, "geometry"},
     rows |-> [k \in 1..Len(geoms) |-> [id |-> ids[k], geom |-> geoms[k]]]]

\* --------------------------------------------------------------- io_utils

CrsAlwaysMatch(gdf1, gdf2) == TRUE

\* ensure_crs_match raises unless this holds
CrsMatch(gdf1, gdf2) == gdf1.crs = gdf2.crs

\* ---------------------------------------------- crosswalk: area weighting

PairIndex(m, n) == [k \in 1..(m * n) |-> <<((k - 1) \div n) + 1, ((k - 1) % n) + 1>>]

\* gpd.overlay(how="intersection", keep_geom_type=False): one piece per pair
\* of features that meet, boundary-only contacts included (area 0)
OverlayAny(past_rows, base_rows) ==
    LET idx == PairIndex(Len(past_rows), Len(base_rows))
        Meets(p) == \/ past_rows[p[1]].geom \cap base_rows[p[2]].geom # {}
                    \/ Touches(past_rows[p[1]].geom, base_rows[p[2]].geom)
        hit == SelectSeq(idx, Meets)
    IN  [k \in 1..Len(hit) |->
            [past_id |-> past_rows[hit[k][1]].id,
             base_id |-> base_rows[hit[k][2]].id,
             orig_area |-> Area(past_rows[hit[k][1]].geom),
             intersect_area |-> Area(past_rows[hit[k][1]].geom
                                     \cap base_rows[hit[k][2]].geom)]]

\* overlay[overlay["_intersect_area"] > sliver_tolerance]
KeepAllPieces(overlay, sliver_tolerance) == overlay

FilterSlivers(overlay, sliver_tolerance) ==
    LET Big(r) == r.intersect_area > sliver_tolerance
    IN  SelectSeq(overlay, Big)

\* overlay["frac"] = overlay["_intersect_area"] / overlay["_orig_area"]
AreaFractions(overlay) ==
    [k \in 1..Len(overlay) |->
        [past_id |-> overlay[k].past_id, base_id |-> overlay[k].base_id,
         frac |-> RDiv(RInt(overlay[k].intersect_area), RInt(overlay[k].orig_area))]]

\* crosswalk.groupby(past_id)["frac"].transform("sum"), for one row
FracSumOf(crosswalk, pid) ==
    LET Same(r) == r.past_id = pid
    IN  RSum(Column(SelectSeq(crosswalk, Same), "frac"))

NoRenormalize(crosswalk) == crosswalk

\* dividing by the sum of the whole column instead of the per-polygon sums
RenormalizeByTable(crosswalk) ==
    [k \in 1..Len(crosswalk) |->
        [crosswalk[k] EXCEPT !.frac = RDiv(@, RSum(Column(crosswalk, "frac")))]]

\* crosswalk["frac"] = crosswalk["frac"] / frac_sums
Renormalize(crosswalk) ==
    [k \in 1..Len(crosswalk) |->
        [crosswalk[k] EXCEPT !.frac = RDiv(@, FracSumOf(crosswalk, crosswalk[k].past_id))]]

\* coverage[coverage < 0.98] of the warning
CoverageThreshold == Rat(98, 100)

\* a check that never warns
NoCoverageWarning(crosswalk) == {}

LowCoverage(crosswalk) ==
    { pid \in Range(Column(crosswalk, "past_id")) :
        RLess(FracSumOf(crosswalk, pid), CoverageThreshold) }

\* _build_area_crosswalk, from the overlay on
AreaCrosswalkOf(overlay, sliver_tolerance) ==
    IF overlay = <<>> THEN <<>>
    ELSE Renormalize(AreaFractions(FilterSlivers(overlay, sliver_tolerance)))

_build_area_crosswalk(past_rows, base_rows, sliver_tolerance) ==
    AreaCrosswalkOf(OverlayAny(past_rows, base_rows), sliver_tolerance)

\* past_gdf[past_id] = ensure_id_consistency(past_gdf[past_id]) on the copy
NormalizedRows(rows) == [k \in 1..Len(rows) |-> [rows[k] EXCEPT !.id = NormalizeId(@)]]

\* ---------------------------------------- crosswalk: population weighting

None == "None"

\* blocks_gdf=None
NoBlocks == [crs |-> None, columns |-> {}, rows |-> <<>>]

\* a raw table cell: a number as written in the file, or text that is none
NumCell(v) == [kind |-> "num", val |-> RInt(v)]

\* a cell that reads v + 1/2
HalfCell(v) == [kind |-> "num", val |-> Rat(2 * v + 1, 2)]

TextCell == [kind |-> "text", val |-> NaN]

\* pd.to_numeric(column, errors="coerce").fillna(0), for one cell
ToNumericFill0(cell) == IF cell.kind = "num" THEN cell.val ELSE RInt(0)

\* gpd.overlay(blocks, precincts, how="intersection") with the default
\* keep_geom_type: area pieces only, then the sliver filter
BlockOverlay(block_rows, prec_rows, sliver_tolerance) ==
    LET idx == PairIndex(Len(block_rows), Len(prec_rows))
        Piece(p) == block_rows[p[1]].geom \cap prec_rows[p[2]].geom
        Keep(p) == Piece(p) # {} /\ Area(Piece(p)) > sliver_tolerance
        hit == SelectSeq(idx, Keep)
    IN  [k \in 1..Len(hit) |->
            [block_id |-> hit[k][1],
             id |-> prec_rows[hit[k][2]].id,
             allocated_pop |->
                 RMul(ToNumericFill0(block_rows[hit[k][1]].pop),
                      RDiv(RInt(Area(Piece(hit[k]))),
                           RInt(Area(block_rows[hit[k][1]].geom))))]]

\* groupby([id, "_block_id"])["_allocated_pop"].sum().reset_index()
BlockPop(pieces) ==
    LET keys == Distinct([k \in 1..Len(pieces) |-> <<pieces[k].id, pieces[k].block_id>>])
    IN  [k \in 1..Len(keys) |->
            LET Same(r) == r.id = keys[k][1] /\ r.block_id = keys[k][2]
            IN  [id |-> keys[k][1], block_id |-> keys[k][2],
                 pop |-> RSum(Column(SelectSeq(pieces, Same), "allocated_pop"))]]

\* the flow of one (past, base) pair through one shared block
SumFlow(past_pop, base_pop) == RAdd(past_pop, base_pop)

PopFlow(past_pop, base_pop) == RMin(past_pop, base_pop)

\* past_block_pop.merge(base_block_pop, on="_block_id", how="inner") with
\* its _pop_flow column
CrosswalkBlocks(past_block_pop, base_block_pop) ==
    LET idx == PairIndex(Len(past_block_pop), Len(base_block_pop))
        Shared(p) == past_block_pop[p[1]].block_id = base_block_pop[p[2]].block_id
        hit == SelectSeq(idx, Shared)
    IN  [k \in 1..Len(hit) |->
            [past_id |-> past_block_pop[hit[k][1]].id,
             base_id |-> base_block_pop[hit[k][2]].id,
             block_id |-> past_block_pop[hit[k][1]].block_id,
             past_pop |-> past_block_pop[hit[k][1]].pop,
             base_pop |-> base_block_pop[hit[k][2]].pop,
             pop_flow |-> PopFlow(past_block_pop[hit[k][1]].pop,
                                  base_block_pop[hit[k][2]].pop)]]

\* groupby([past_id, base_id])["_pop_flow"].sum(), then frac = _pop / total
PopFractions(crosswalk_blocks) ==
    LET keys == Distinct([k \in 1..Len(crosswalk_blocks) |->
                            <<crosswalk_blocks[k].past_id, crosswalk_blocks[k].base_id>>])
        flows == [k \in 1..Len(keys) |->
                    LET Same(r) == r.past_id = keys[k][1] /\ r.base_id = keys[k][2]
                    IN  [past_id |-> keys[k][1], base_id |-> keys[k][2],
                         frac |-> RSum(Column(SelectSeq(crosswalk_blocks, Same),
                                              "pop_flow"))]]
    IN  Renormalize(flows)

_build_population_crosswalk(past_rows, base_rows, block_rows, sliver_tolerance) ==
    PopFractions(CrosswalkBlocks(
        BlockPop(BlockOverlay(block_rows, past_rows, sliver_tolerance)),
        BlockPop(BlockOverlay(block_rows, base_rows, sliver_tolerance))))

\* ------------------------------------------------- crosswalk: entry point

\* the error build_crosswalk raises for its arguments, "" when it raises none
ValidationError(past, base, past_id, base_id, w, blocks, pop_field) ==
    IF ~CrsMatch(past, base) THEN "ValueError: CRS mismatch"
    ELSE IF past_id \notin past.columns THEN "ValueError: past_id column not found"
    ELSE IF base_id \notin base.columns THEN "ValueError: base_id column not found"
    ELSE IF w \notin {"area", "pop"} THEN "ValueError: Invalid weight method"
    ELSE IF w = "pop" /\ (blocks = NoBlocks \/ pop_field = None)
         THEN "ValueError: Population weighting requires blocks_gdf and block_pop_field"
    ELSE ""

\* the error _build_population_crosswalk raises before its overlays
BlocksError(past, base, blocks, pop_field) ==
    IF ~CrsMatch(past, blocks) \/ ~CrsMatch(base, blocks)
    THEN "ValueError: CRS mismatch"
    ELSE IF pop_field \notin blocks.columns THEN "KeyError: block_pop_field"
    ELSE ""

\* build_crosswalk as a function of its arguments: the error raised, or the
\* crosswalk returned
build_crosswalk(past, base, past_id, base_id, w, blocks, pop_field, sliver_tolerance) ==
    LET e == ValidationError(past, base, past_id, base_id, w, blocks, pop_field)
    IN  IF e # "" THEN [err |-> e, crosswalk |-> <<>>]
        ELSE IF w = "area"
        THEN [err |-> "",
              crosswalk |-> _build_area_crosswalk(NormalizedRows(past.rows),
                                                  NormalizedRows(base.rows),
                                                  sliver_tolerance)]
        ELSE IF BlocksError(past, base, blocks, pop_field) # ""
        THEN [err |-> BlocksError(past, base, blocks, pop_field), crosswalk |-> <<>>]
        ELSE [err |-> "",
              crosswalk |-> _build_population_crosswalk(NormalizedRows(past.rows),
                                                        NormalizedRows(base.rows),
                                                        blocks.rows, sliver_tolerance)]

\* ------------------------------------------------------ io_utils: loaders

NoFile == [exists |-> FALSE, crs |-> None, idcol |-> None, columns |-> {}, rows |-> <<>>]

\* a polygon dataset on disk; crs = None is an undefined source CRS
ShapeFile(crs, idcol, ids, geoms) ==
    [exists |-> TRUE, crs |-> crs, idcol |-> idcol, columns |-> {idcol, "geometry"},
     rows |-> [k \in 1..Len(geoms) |-> [id |-> ids[k], geom |-> geoms[k]]]]

KeepSourceCrs(source_crs, target_crs) == source_crs

\* the CRS load_shapefile gives a dataset: set_crs for an undefined source,
\* to_crs for another one
LoadedCrs(source_crs, target_crs) ==
    IF source_crs = None THEN target_crs
    ELSE IF source_crs # target_crs THEN target_crs
    ELSE source_crs

\* load_shapefile: the error raised, or the collection in the target CRS
load_shapefile(file, target_crs) ==
    IF ~file.exists THEN [err |-> "FileNotFoundError: Shapefile not found", gdf |-> NoBlocks]
    ELSE IF file.rows = <<>> THEN [err |-> "ValueError: Shapefile is empty", gdf |-> NoBlocks]
    ELSE [err |-> "",
          gdf |-> [crs |-> LoadedCrs(file.crs, target_crs), columns |-> file.columns,
                   rows |-> file.rows]]

\* astype(int) of a finite float: the fraction is dropped
AsInt(q) == IF q.n >= 0 THEN q.n \div q.d ELSE -((-q.n) \div q.d)

\* load_results_csv: the error raised, or the Results Records
load_results_csv(file, id_field) ==
    IF ~file.exists THEN [err |-> "FileNotFoundError: Results CSV not found", df |-> <<>>]
    ELSE IF {id_field, "D_votes", "R_votes"} \ file.columns # {}
    THEN [err |-> "ValueError: Missing required columns", df |-> <<>>]
    ELSE [err |-> "",
          df |-> [k \in 1..Len(file.rows) |->
                    LET d == AsInt(ToNumericFill0(file.rows[k].D_votes))
                        r == AsInt(ToNumericFill0(file.rows[k].R_votes))
                    IN  [precinct_id |-> NormalizeId(file.rows[k].id),
                         D_votes |-> d, R_votes |-> r, total |-> d + r]]]

\* ------------------------------------------------- harmonize: reallocation

\* the left merge with the unmatched rows counted as one vote each
RECURSIVE MissingAsOneVote(_, _)
MissingAsOneVote(xw, results_df) ==
    IF xw = <<>> THEN <<>>
    ELSE LET x == Head(xw)
             Match(r) == r.precinct_id = x.past_id
             hits == SelectSeq(results_df, Match)
             rows == IF hits = <<>>
                     THEN << [past_id |-> x.past_id, base_id |-> x.base_id, frac |-> x.frac,
                              missing |-> TRUE, D_votes |-> 1, R_votes |-> 1, total |-> 2] >>
                     ELSE [k \in 1..Len(hits) |->
                             [past_id |-> x.past_id, base_id |-> x.base_id, frac |-> x.frac,
                              missing |-> FALSE, D_votes |-> hits[k].D_votes,
                              R_votes |-> hits[k].R_votes, total |-> hits[k].total]]
         IN  rows \o MissingAsOneVote(Tail(xw), results_df)

\* crosswalk.merge(results_df, left_on=year_id, right_on="precinct_id",
\* how="left"), with the rows that found no results set to zero votes
RECURSIVE CrosswalkWithVotes(_, _)
CrosswalkWithVotes(xw, results_df) ==
    IF xw = <<>> THEN <<>>
    ELSE LET x == Head(xw)
             Match(r) == r.precinct_id = x.past_id
             hits == SelectSeq(results_df, Match)
             rows == IF hits = <<>>
                     THEN << [past_id |-> x.past_id, base_id |-> x.base_id, frac |-> x.frac,
                              missing |-> TRUE, D_votes |-> 0, R_votes |-> 0, total |-> 0] >>
                     ELSE [k \in 1..Len(hits) |->
                             [past_id |-> x.past_id, base_id |-> x.base_id, frac |-> x.frac,
                              missing |-> FALSE, D_votes |-> hits[k].D_votes,
                              R_votes |-> hits[k].R_votes, total |-> hits[k].total]]
         IN  rows \o CrosswalkWithVotes(Tail(xw), results_df)

\* the total taken over whole instead of by the fraction
AllocatedWholeTotal(cwv) ==
    [k \in 1..Len(cwv) |->
        [base_id |-> cwv[k].base_id,
         D_allocated |-> RMul(RInt(cwv[k].D_votes), cwv[k].frac),
         R_allocated |-> RMul(RInt(cwv[k].R_votes), cwv[k].frac),
         total_allocated |-> RInt(cwv[k].total)]]

\* the allocated columns: votes * frac
Allocated(cwv) ==
    [k \in 1..Len(cwv) |->
        [base_id |-> cwv[k].base_id,
         D_allocated |-> RMul(RInt(cwv[k].D_votes), cwv[k].frac),
         R_allocated |-> RMul(RInt(cwv[k].R_votes), cwv[k].frac),
         total_allocated |-> RMul(RInt(cwv[k].total), cwv[k].frac)]]

\* groupby(base_id).agg(sum).reset_index(), unrounded
AllocatedByBase(alloc) ==
    LET keys == Distinct(Column(alloc, "base_id"))
    IN  [k \in 1..Len(keys) |->
            LET Same(r) == r.base_id = keys[k]
                grp == SelectSeq(alloc, Same)
            IN  [base_id |-> keys[k],
                 D_votes |-> RSum(Column(grp, "D_allocated")),
                 R_votes |-> RSum(Column(grp, "R_allocated")),
                 total |-> RSum(Column(grp, "total_allocated"))]]

\* harmonized["D_share"] = (D_votes / total).fillna(0)
DShare(d, t) == IF IsNaN(Rat(d, t)) THEN RInt(0) ELSE Rat(d, t)

\* .round().astype(int) of one aggregated column value
RoundVotes(q) == RoundHalfEven(q)

\* the harmonized table: rounded columns, year, D_share
Harmonized(by_base, year) ==
    [k \in 1..Len(by_base) |->
        LET d == RoundVotes(by_base[k].D_votes)
            r == RoundVotes(by_base[k].R_votes)
            t == RoundVotes(by_base[k].total)
        IN  [base_id |-> by_base[k].base_id, D_votes |-> d, R_votes |-> r, total |-> t,
             year |-> year, D_share |-> DShare(d, t)]]

DropUnmatched(base_rows, harmonized, year) ==
    LET Has(b) == \E k \in 1..Len(harmonized) : harmonized[k].base_id = b.id
        kept == SelectSeq(base_rows, Has)
    IN  [k \in 1..Len(kept) |->
            LET h == CHOOSE x \in Range(harmonized) : x.base_id = kept[k].id
            IN  [base_id |-> kept[k].id, geom |-> kept[k].geom, D_votes |-> h.D_votes,
                 R_votes |-> h.R_votes, total |-> h.total, year |-> h.year,
                 D_share |-> h.D_share]]

\* base_gdf[[base_id, "geometry"]].merge(harmonized, on=base_id, how="left")
\* with the rows that found no harmonized record filled with zeros
HarmonizedGdf(base_rows, harmonized, year) ==
    [k \in 1..Len(base_rows) |->
        LET Match(h) == h.base_id = base_rows[k].id
            hits == SelectSeq(harmonized, Match)
        IN  IF hits = <<>>
            THEN [base_id |-> base_rows[k].id, geom |-> base_rows[k].geom, D_votes |-> 0,
                  R_votes |-> 0, total |-> 0, year |-> year, D_share |-> RInt(0)]
            ELSE [base_id |-> base_rows[k].id, geom |-> base_rows[k].geom,
                  D_votes |-> hits[1].D_votes, R_votes |-> hits[1].R_votes,
                  total |-> hits[1].total, year |-> hits[1].year,
                  D_share |-> hits[1].D_share]]

\* the columns [base_id, year, D_votes, R_votes, total, D_share] of a table
CsvColumns(tab) ==
    [k \in 1..Len(tab) |->
        [base_id |-> tab[k].base_id, year |-> tab[k].year, D_votes |-> tab[k].D_votes,
         R_votes |-> tab[k].R_votes, total |-> tab[k].total, D_share |-> tab[k].D_share]]

\* ------------------------------------------------------------ input sets

TargetCrs == "EPSG:3734"

OtherCrs == "EPSG:4326"

Digit(k) == CASE k = 1 -> "1" [] k = 2 -> "2" [] k = 3 -> "3" [] k = 4 -> "4"
              [] k = 5 -> "5" [] k = 6 -> "6" [] k = 7 -> "7" [] OTHER -> "9"

\* identifiers as the source files spell them: the first of a file may be
\* lower-case and padded
PastRawId(k, messy) == IF messy /\ k = 1 THEN <<" ", "p", "1">> ELSE <<"P", Digit(k)>>

BaseRawId(k, messy) == IF messy /\ k = 1 THEN <<"b", "1", " ">> ELSE <<"B", Digit(k)>>

PastIds(n, messy) == [k \in 1..n |-> PastRawId(k, messy)]

BaseIds(n, messy) == [k \in 1..n |-> BaseRawId(k, messy)]

SliverTolerances == {0, 1}

PopValues == {NumCell(v) : v \in 0..MaxPop} \cup {TextCell}

\* census blocks tiling the whole strip, each with a population cell
BlockCollections(N, crs) ==
    UNION { { [crs |-> crs, columns |-> {"POP", "geometry"},
               rows |-> [k \in 1..Len(g) |-> [geom |-> g[k], pop |-> pops[k]]]]
              : pops \in [1..Len(g) -> PopValues] }
            : g \in { Pieces(1, N, cuts) : cuts \in SUBSET (1..(N - 1)) } }

\* ------------------------------------------------------------------ state

VARIABLES
    past_gdf,        \* build_crosswalk's argument past_gdf
    base_gdf,        \* its argument base_gdf
    blocks_gdf,      \* its argument blocks_gdf (NoBlocks for None)
    xw_args,         \* its other arguments
    pc,              \* where the call stands
    err,             \* the exception that left the call, "" for none
    past_norm,       \* the normalized copy of past_gdf's rows
    base_norm,       \* the normalized copy of base_gdf's rows
    overlay,         \* the overlay table(s) of the running call
    overlays_run,    \* gpd.overlay calls made so far
    low_coverage,    \* past ids named by the coverage warning
    crosswalk,       \* the crosswalk returned
    shapefiles,      \* the polygon dataset on disk for each year
    results_csv,     \* the results file on disk for each year
    cfg,             \* the configuration dictionary
    call,            \* reallocate_votes_to_base's arguments year, weight, save_outputs
    loaded,          \* the input files read so far
    results_df,      \* the Results Records loaded
    harmonized,      \* the harmonized table (one row per base id of the crosswalk)
    harmonized_gdf,  \* the table joined to the base geometry, as returned
    files,           \* the output files written, by name
    run,             \* harmonize_all: the years left, attempted, logged, the error raised
    stats,           \* the dictionary validate_crosswalk returns
    df_long,         \* compute_two_party_metrics' argument df_long
    df,              \* the table compute_two_party_metrics returns
    agg,             \* the table county_aggregates returns
    par              \* the calls of reallocate_votes_to_base that run side by side

xw_vars == <<past_gdf, base_gdf, blocks_gdf, xw_args, pc, err, past_norm, base_norm,
             overlay, overlays_run, low_coverage, crosswalk>>

hz_vars == <<shapefiles, results_csv, cfg, call, loaded, results_df, harmonized,
             harmonized_gdf, files, run, stats, df_long, df, agg, par>>

vars == <<past_gdf, base_gdf, blocks_gdf, xw_args, pc, err, past_norm, base_norm,
          overlay, overlays_run, low_coverage, crosswalk, shapefiles, results_csv, cfg,
          call, loaded, results_df, harmonized, harmonized_gdf, files, run, stats,
          df_long, df, agg, par>>

NoFiles == [name \in {} |-> <<>>]

NoCall == [year |-> None, weight |-> None, save_outputs |-> FALSE]

\* no harmonize_all under way
NoRun == [phase |-> None, weight |-> None, non_base_years |-> <<>>, attempted |-> <<>>,
          logged |-> <<>>, err |-> ""]

\* harmonize_all, validate_crosswalk and compute_two_party_metrics not called
OthersIdle ==
    /\ run = NoRun
    /\ stats = None
    /\ df_long = <<>>
    /\ df = <<>>
    /\ agg = <<>>
    /\ par = <<>>

\* no harmonization under way: build_crosswalk is called on its own
HzIdle ==
    /\ shapefiles = NoFiles
    /\ results_csv = NoFiles
    /\ cfg = [base_year |-> None]
    /\ call = NoCall
    /\ loaded = {}
    /\ results_df = <<>>
    /\ harmonized = <<>>
    /\ harmonized_gdf = <<>>
    /\ files = NoFiles

XwLocalsInit ==
    /\ pc = "validate"
    /\ err = ""
    /\ past_norm = <<>>
    /\ base_norm = <<>>
    /\ overlay = <<>>
    /\ overlays_run = 0
    /\ low_coverage = {}
    /\ crosswalk = <<>>

Args(past_id, base_id, w, pop_field, tol) ==
    [past_id |-> past_id, base_id |-> base_id, weight |-> w,
     block_pop_field |-> pop_field, sliver_tolerance |-> tol]

\* area-weighted calls over the long strip
InitXwArea ==
    /\ \E g \in Geometries(XwCells) :
          past_gdf = Gdf(TargetCrs, "PAST_ID", PastIds(Len(g), TRUE), g)
    /\ \E g \in Geometries(XwCells), crs \in {TargetCrs, OtherCrs} :
          base_gdf = Gdf(crs, "BASE_ID", BaseIds(Len(g), TRUE), g)
    /\ blocks_gdf = NoBlocks
    /\ \E tol \in SliverTolerances :
          xw_args = Args("PAST_ID", "BASE_ID", "area", None, tol)

\* population-weighted calls over the short strip
InitXwPop ==
    /\ \E g \in Geometries(BlockCells) :
          past_gdf = Gdf(TargetCrs, "PAST_ID", PastIds(Len(g), TRUE), g)
    /\ \E g \in Geometries(BlockCells) :
          base_gdf = Gdf(TargetCrs, "BASE_ID", BaseIds(Len(g), TRUE), g)
    /\ \E crs \in {TargetCrs, OtherCrs} : blocks_gdf \in BlockCollections(BlockCells, crs)
    /\ \E tol \in SliverTolerances :
          xw_args = Args("PAST_ID", "BASE_ID", "pop", "POP", tol)

\* calls with an argument missing or wrong
InitXwBadArgs ==
    /\ past_gdf = Gdf(TargetCrs, "PAST_ID", PastIds(1, TRUE), <<1..BlockCells>>)
    /\ \E crs \in {TargetCrs, OtherCrs} :
          base_gdf = Gdf(crs, "BASE_ID", BaseIds(1, TRUE), <<1..BlockCells>>)
    /\ \E crs \in {TargetCrs, OtherCrs} :
          blocks_gdf \in {NoBlocks} \cup BlockCollections(1, crs)
    /\ \E past_id \in {"PAST_ID", "PRECINCT"}, base_id \in {"BASE_ID", "PRECINCT"},
          w \in {"area", "pop", "votes"}, pop_field \in {None, "POP", "POP20"} :
          xw_args = Args(past_id, base_id, w, pop_field, 0)

InitXW == XwLocalsInit /\ HzIdle /\ OthersIdle /\ (InitXwArea \/ InitXwPop \/ InitXwBadArgs)

\* ---------------------------------------------- build_crosswalk, stepwise

\* the argument checks
XwValidate ==
    /\ pc = "validate"
    /\ LET e == ValidationError(past_gdf, base_gdf, xw_args.past_id, xw_args.base_id,
                                xw_args.weight, blocks_gdf, xw_args.block_pop_field)
       IN  /\ err' = e
           /\ pc' = IF e # "" THEN "raised" ELSE "normalize"
    /\ UNCHANGED <<past_gdf, base_gdf, blocks_gdf, xw_args, past_norm, base_norm,
                   overlay, overlays_run, low_coverage, crosswalk>>
    /\ UNCHANGED hz_vars

\* an assignment into the caller's own object
Aliased(callers, assigned) == assigned

\* gdf = gdf.copy() before an assignment into gdf: the caller's object
\* after the assignment
Copied(callers, assigned) == callers

\* copies with normalized identifiers
XwNormalize ==
    /\ pc = "normalize"
    /\ past_norm' = NormalizedRows(past_gdf.rows)
    /\ base_norm' = NormalizedRows(base_gdf.rows)
    /\ past_gdf' = [past_gdf EXCEPT !.rows = Copied(@, past_norm')]
    /\ base_gdf' = [base_gdf EXCEPT !.rows = Copied(@, base_norm')]
    /\ pc' = IF xw_args.weight = "area" THEN "area_overlay" ELSE "pop_check"
    /\ UNCHANGED <<blocks_gdf, xw_args, err, overlay, overlays_run, low_coverage, crosswalk>>
    /\ UNCHANGED hz_vars

\* _build_area_crosswalk up to the empty-overlay return
XwAreaOverlay ==
    /\ pc = "area_overlay"
    /\ overlay' = OverlayAny(past_norm, base_norm)
    /\ overlays_run' = overlays_run + 1
    /\ pc' = IF overlay' = <<>> THEN "returned" ELSE "area_frac"
    /\ UNCHANGED <<past_gdf, base_gdf, blocks_gdf, xw_args, err, past_norm, base_norm,
                   low_coverage, crosswalk>>
    /\ UNCHANGED hz_vars

\* _build_area_crosswalk from the sliver filter to its return
XwAreaFractions ==
    /\ pc = "area_frac"
    /\ low_coverage' = LowCoverage(AreaFractions(FilterSlivers(overlay,
                                                  xw_args.sliver_tolerance)))
    /\ crosswalk' = AreaCrosswalkOf(overlay, xw_args.sliver_tolerance)
    /\ pc' = "returned"
    /\ UNCHANGED <<past_gdf, base_gdf, blocks_gdf, xw_args, err, past_norm, base_norm,
                   overlay, overlays_run>>
    /\ UNCHANGED hz_vars

\* _build_population_crosswalk up to its first overlay
XwPopCheck ==
    /\ pc = "pop_check"
    /\ LET e == BlocksError(past_gdf, base_gdf, blocks_gdf, xw_args.block_pop_field)
       IN  /\ err' = e
           /\ pc' = IF e # "" THEN "raised" ELSE "pop_overlay"
    /\ UNCHANGED <<past_gdf, base_gdf, blocks_gdf, xw_args, past_norm, base_norm,
                   overlay, overlays_run, low_coverage, crosswalk>>
    /\ UNCHANGED hz_vars

\* the two block overlays with their allocated populations
XwPopOverlay ==
    /\ pc = "pop_overlay"
    /\ overlay' = <<BlockOverlay(blocks_gdf.rows, past_norm, xw_args.sliver_tolerance),
                    BlockOverlay(blocks_gdf.rows, base_norm, xw_args.sliver_tolerance)>>
    /\ overlays_run' = overlays_run + 2
    /\ blocks_gdf' = [blocks_gdf EXCEPT
                         !.columns = Copied(@, @ \cup {"_block_id", "_pop"})]
    /\ pc' = "pop_flow"
    /\ UNCHANGED <<past_gdf, base_gdf, xw_args, err, past_norm, base_norm, low_coverage,
                   crosswalk>>
    /\ UNCHANGED hz_vars

\* the flows, the fractions and the coverage warning
XwPopFlow ==
    /\ pc = "pop_flow"
    /\ crosswalk' = PopFractions(CrosswalkBlocks(BlockPop(overlay[1]), BlockPop(overlay[2])))
    /\ low_coverage' = LowCoverage(crosswalk')
    /\ pc' = "returned"
    /\ UNCHANGED <<past_gdf, base_gdf, blocks_gdf, xw_args, err, past_norm, base_norm,
                   overlay, overlays_run>>
    /\ UNCHANGED hz_vars

NextXW ==
    \/ XwValidate
    \/ XwNormalize
    \/ XwAreaOverlay
    \/ XwAreaFractions
    \/ XwPopCheck
    \/ XwPopOverlay
    \/ XwPopFlow

SpecXW == InitXW /\ [][NextXW]_vars

\* ------------------------------------------- harmonize: inputs of a call

PastYear == "2020"

BaseYear == "2024"

\* base_year as the configuration holds it: a YAML integer or a string
IntYear(v) == [kind |-> "int", val |-> v, text |-> ""]

StrYear(t) == [kind |-> "str", val |-> 0, text |-> t]

\* str(cfg["base_year"])
Str(y) == IF y.kind = "str" THEN y.text
          ELSE CASE y.val = 2024 -> "2024" [] y.val = 2020 -> "2020" [] OTHER -> "?"

\* cfg.get("options", {}).get("sliver_tolerance", 1e-9): areas are whole
\* cells, so the default lies below every positive area
DefaultSliverTolerance == 0

Unset == [set |-> FALSE, val |-> 0]

Option(v) == [set |-> TRUE, val |-> v]

SliverToleranceOf(c) ==
    IF c.sliver_tolerance.set THEN c.sliver_tolerance.val ELSE DefaultSliverTolerance

\* the keys of cfg["output"] that reallocate_votes_to_base reads
OutputKeys == {"crosswalk_dir", "harmonized_gpkg"}

Cfg(base_year, tol, blocks, pop_field) ==
    [base_year |-> base_year, crs |-> TargetCrs,
     id_fields |-> [y \in {PastYear, BaseYear} |->
                       IF y = PastYear THEN "PAST_ID" ELSE "BASE_ID"],
     blocks_gpkg |-> blocks, block_pop_field |-> pop_field, sliver_tolerance |-> tol,
     output |-> OutputKeys]

TolOptions == {Unset} \cup {Option(t) : t \in SliverTolerances \ {DefaultSliverTolerance}}

\* identifiers as the results file spells them
ResultsRawId(k) == IF k = 1 THEN <<"p", "1">> ELSE <<"P", Digit(k)>>

\* the cells of a D_votes column: counts, a negative number, text
VoteCells == {NumCell(v) : v \in -1..MaxVotes} \cup {TextCell}

RVoteCells == {NumCell(0), NumCell(1)}

\* the precincts a results file may list
ResultsPrecincts == {1, 2}

ResultsRow(k, d, r) == [id |-> ResultsRawId(k), D_votes |-> d, R_votes |-> r]

RECURSIVE RowsOf(_, _)
RowsOf(ks, f) ==
    IF ks = {} THEN <<>>
    ELSE LET k == Min(ks) IN <<ResultsRow(k, f[k][1], f[k][2])>> \o RowsOf(ks \ {k}, f)

\* the results files: a row for some of the precincts, any counts
ResultsFiles(idcol) ==
    UNION { { [exists |-> TRUE, columns |-> {idcol, "D_votes", "R_votes"},
               rows |-> RowsOf(ks, f)]
              : f \in [ks -> VoteCells \X RVoteCells] }
            : ks \in SUBSET ResultsPrecincts }

FixedResults(idcol) ==
    [exists |-> TRUE, columns |-> {idcol, "D_votes", "R_votes"},
     rows |-> <<ResultsRow(1, NumCell(MaxVotes), NumCell(1)),
                ResultsRow(2, HalfCell(1), NumCell(0))>>]

NoResults == [exists |-> FALSE, columns |-> {}, rows |-> <<>>]

HzLocalsInit ==
    /\ pc = "hz_start"
    /\ err = ""
    /\ past_gdf = NoBlocks
    /\ base_gdf = NoBlocks
    /\ blocks_gdf = NoBlocks
    /\ xw_args = Args(None, None, None, None, 0)
    /\ past_norm = <<>>
    /\ base_norm = <<>>
    /\ overlay = <<>>
    /\ overlays_run = 0
    /\ low_coverage = {}
    /\ crosswalk = <<>>
    /\ loaded = {}
    /\ results_df = <<>>
    /\ harmonized = <<>>
    /\ harmonized_gdf = <<>>
    /\ files = NoFiles

Years(past_file, base_file) ==
    [y \in {PastYear, BaseYear} |-> IF y = PastYear THEN past_file ELSE base_file]

\* area-weighted harmonization of the past year, over every results file
InitHzArea ==
    /\ \E gp \in PrefixGeometries(NumCells), gb \in SuffixGeometries(NumCells) :
          shapefiles = Years(ShapeFile(TargetCrs, "PAST_ID", PastIds(Len(gp), TRUE), gp),
                             ShapeFile(TargetCrs, "BASE_ID", BaseIds(Len(gb), FALSE), gb))
    /\ \E f \in ResultsFiles("PAST_ID") : results_csv = Years(f, FixedResults("BASE_ID"))
    /\ cfg = Cfg(IntYear(2024), Unset, NoBlocks, None)
    /\ call = [year |-> PastYear, weight |-> "area", save_outputs |-> TRUE]

\* the same with a base shapefile whose first identifier is lower-case and padded
InitHzRawIds ==
    /\ \E gp \in PrefixGeometries(NumCells), gb \in SuffixGeometries(NumCells) :
          shapefiles = Years(ShapeFile(TargetCrs, "PAST_ID", PastIds(Len(gp), TRUE), gp),
                             ShapeFile(TargetCrs, "BASE_ID", BaseIds(Len(gb), TRUE), gb))
    /\ results_csv = Years(FixedResults("PAST_ID"), FixedResults("BASE_ID"))
    /\ cfg = Cfg(IntYear(2024), Unset, NoBlocks, None)
    /\ call = [year |-> PastYear, weight |-> "area", save_outputs |-> TRUE]

\* harmonization with weight="pop", and area-weighted harmonization with a
\* configured sliver tolerance
InitHzPop ==
    /\ \E gp \in PrefixGeometries(BlockCells), gb \in SuffixGeometries(BlockCells) :
          shapefiles = Years(ShapeFile(TargetCrs, "PAST_ID", PastIds(Len(gp), TRUE), gp),
                             ShapeFile(TargetCrs, "BASE_ID", BaseIds(Len(gb), FALSE), gb))
    /\ results_csv = Years(FixedResults("PAST_ID"), FixedResults("BASE_ID"))
    /\ \E blocks \in {NoBlocks} \cup BlockCollections(BlockCells, OtherCrs),
          pop_field \in {None, "POP"}, tol \in TolOptions, w \in {"area", "pop"} :
          /\ \/ w = "pop" /\ tol = Unset
             \/ w = "area" /\ blocks = NoBlocks /\ pop_field = None
          /\ cfg = Cfg(IntYear(2024), tol, blocks, pop_field)
          /\ call = [year |-> PastYear, weight |-> w, save_outputs |-> TRUE]

\* calls for the base year or an unconfigured one, and inputs that are missing
InitHzFail ==
    /\ \E past_there \in BOOLEAN, base_there \in BOOLEAN,
          src \in {None, TargetCrs, OtherCrs}, base_src \in {None, TargetCrs, OtherCrs} :
          shapefiles =
              Years(IF past_there
                    THEN ShapeFile(src, "PAST_ID", PastIds(1, TRUE), <<1..NumCells>>)
                    ELSE NoFile,
                    IF base_there
                    THEN ShapeFile(base_src, "BASE_ID", BaseIds(NumCells, FALSE),
                                   Pieces(1, NumCells, 1..(NumCells - 1)))
                    ELSE NoFile)
    /\ \E f \in {NoResults, FixedResults("PAST_ID"), FixedResults("PRECINCT")} :
          results_csv = Years(f, FixedResults("BASE_ID"))
    /\ \E by \in {IntYear(2024), StrYear("2024")}, out \in SUBSET OutputKeys :
          cfg = [Cfg(by, Unset, NoBlocks, None) EXCEPT !.output = out]
    /\ \E y \in {PastYear, BaseYear, "1999"}, save \in BOOLEAN :
          call = [year |-> y, weight |-> "area", save_outputs |-> save]

Init == HzLocalsInit /\ OthersIdle /\ (InitHzArea \/ InitHzRawIds \/ InitHzPop \/ InitHzFail)

\* ------------------------------------- reallocate_votes_to_base, stepwise

NoBaseYearError(year, c) == ""

\* the guard on the base year
BaseYearError(year, c) ==
    IF year = Str(c.base_year) THEN "ValueError: Cannot harmonize base year" ELSE ""

CrosswalkCsv(year, c) == <<"crosswalk", year, Str(c.base_year), "csv">>

GpkgLayer(year, c) == <<"harmonized.gpkg", "yr", year, "on", Str(c.base_year)>>

HarmonizedCsv(year, c) == <<"harmonized", year, "on", Str(c.base_year), "csv">>

Write(fs, name, content) ==
    [n \in DOMAIN fs \cup {name} |-> IF n = name THEN content ELSE fs[n]]

HzUnchangedInputs == UNCHANGED <<shapefiles, results_csv, cfg, call, run, stats, df_long, df, agg, par>>

HzUnchangedXw == UNCHANGED <<xw_args, past_norm, base_norm, overlay, overlays_run>>

\* the base-year guard
HzCheckBaseYear ==
    /\ pc = "hz_start"
    /\ err' = BaseYearError(call.year, cfg)
    /\ pc' = IF err' # "" THEN "raised" ELSE "hz_load"
    /\ HzUnchangedInputs /\ HzUnchangedXw
    /\ UNCHANGED <<past_gdf, base_gdf, blocks_gdf, low_coverage, crosswalk, loaded,
                   results_df, harmonized, harmonized_gdf, files>>

\* the two shapefiles and the results file, in the order the code reads them
HzLoadInputs ==
    /\ pc = "hz_load"
    /\ IF call.year \notin DOMAIN shapefiles
       THEN /\ err' = "KeyError: year"
            /\ pc' = "raised"
            /\ UNCHANGED <<past_gdf, base_gdf, results_df, loaded>>
       ELSE LET base_year == Str(cfg.base_year)
                yr == load_shapefile(shapefiles[call.year], cfg.crs)
                bs == load_shapefile(shapefiles[base_year], cfg.crs)
                rs == load_results_csv(results_csv[call.year], cfg.id_fields[call.year])
            IN  IF yr.err # ""
                THEN /\ err' = yr.err /\ pc' = "raised"
                     /\ UNCHANGED <<past_gdf, base_gdf, results_df, loaded>>
                ELSE IF bs.err # ""
                THEN /\ err' = bs.err /\ pc' = "raised"
                     /\ past_gdf' = yr.gdf
                     /\ loaded' = {<<"shapefile", call.year>>}
                     /\ UNCHANGED <<base_gdf, results_df>>
                ELSE IF rs.err # ""
                THEN /\ err' = rs.err /\ pc' = "raised"
                     /\ past_gdf' = yr.gdf /\ base_gdf' = bs.gdf
                     /\ loaded' = {<<"shapefile", call.year>>, <<"shapefile", base_year>>}
                     /\ UNCHANGED results_df
                ELSE /\ err' = "" /\ pc' = "hz_crosswalk"
                     /\ past_gdf' = yr.gdf /\ base_gdf' = bs.gdf /\ results_df' = rs.df
                     /\ loaded' = {<<"shapefile", call.year>>, <<"shapefile", base_year>>,
                                   <<"results", call.year>>}
    /\ HzUnchangedInputs /\ HzUnchangedXw
    /\ UNCHANGED <<blocks_gdf, low_coverage, crosswalk, harmonized, harmonized_gdf, files>>

\* the weight the crosswalk is built with: "pop" falls back to "area" when
\* no blocks are configured
EffectiveWeight(w, c) == IF w = "pop" /\ c.blocks_gpkg = NoBlocks THEN "area" ELSE w

\* gpd.read_file(blocks_path).to_crs(target_crs)
LoadedBlocks(w, c) ==
    IF w = "pop" /\ c.blocks_gpkg # NoBlocks
    THEN [c.blocks_gpkg EXCEPT !.crs = c.crs]
    ELSE NoBlocks

LoadedPopField(w, c) ==
    IF w = "pop" /\ c.blocks_gpkg # NoBlocks THEN c.block_pop_field ELSE None

\* the population-weight inputs and the build_crosswalk call
HzBuildCrosswalk ==
    /\ pc = "hz_crosswalk"
    /\ blocks_gdf' = LoadedBlocks(call.weight, cfg)
    /\ LET res == build_crosswalk(past_gdf, base_gdf, cfg.id_fields[call.year],
                                  cfg.id_fields[Str(cfg.base_year)],
                                  EffectiveWeight(call.weight, cfg), blocks_gdf',
                                  LoadedPopField(call.weight, cfg), SliverToleranceOf(cfg))
       IN  /\ err' = res.err
           /\ crosswalk' = res.crosswalk
           /\ pc' = IF res.err # "" THEN "raised" ELSE "hz_save_crosswalk"
    /\ HzUnchangedInputs /\ HzUnchangedXw
    /\ UNCHANGED <<past_gdf, base_gdf, low_coverage, loaded, results_df, harmonized,
                   harmonized_gdf, files>>

\* cfg["output"][key], read only when the outputs are saved
OutputKeyError(save_outputs, key, c) ==
    IF save_outputs /\ key \notin c.output THEN "KeyError: output" ELSE ""

\* the crosswalk CSV
HzSaveCrosswalk ==
    /\ pc = "hz_save_crosswalk"
    /\ err' = OutputKeyError(call.save_outputs, "crosswalk_dir", cfg)
    /\ files' = IF call.save_outputs /\ err' = ""
                THEN Write(files, CrosswalkCsv(call.year, cfg), crosswalk)
                ELSE files
    /\ pc' = IF err' # "" THEN "raised" ELSE "hz_reallocate"
    /\ HzUnchangedInputs /\ HzUnchangedXw
    /\ UNCHANGED <<past_gdf, base_gdf, blocks_gdf, low_coverage, crosswalk, loaded,
                   results_df, harmonized, harmonized_gdf>>

\* the join with the results, the allocation, the rounding, the join with
\* the base geometry and its zero fill
HzReallocate ==
    /\ pc = "hz_reallocate"
    /\ harmonized' = Harmonized(AllocatedByBase(Allocated(
                          CrosswalkWithVotes(crosswalk, results_df))), call.year)
    /\ harmonized_gdf' = HarmonizedGdf(base_gdf.rows, harmonized', call.year)
    /\ pc' = "hz_save_gpkg"
    /\ HzUnchangedInputs /\ HzUnchangedXw
    /\ UNCHANGED <<past_gdf, base_gdf, blocks_gdf, err, low_coverage, crosswalk, loaded,
                   results_df, files>>

\* the GeoPackage layer
HzSaveGpkg ==
    /\ pc = "hz_save_gpkg"
    /\ err' = OutputKeyError(call.save_outputs, "harmonized_gpkg", cfg)
    /\ files' = IF call.save_outputs /\ err' = ""
                THEN Write(files, GpkgLayer(call.year, cfg), harmonized_gdf)
                ELSE files
    /\ pc' = IF err' # "" THEN "raised" ELSE "hz_save_csv"
    /\ HzUnchangedInputs /\ HzUnchangedXw
    /\ UNCHANGED <<past_gdf, base_gdf, blocks_gdf, low_coverage, crosswalk, loaded,
                   results_df, harmonized, harmonized_gdf>>

\* the table the harmonized CSV is written from
CsvTable(h, hgdf) == CsvColumns(h)

\* the harmonized CSV, then the return
HzSaveCsv ==
    /\ pc = "hz_save_csv"
    /\ files' = IF call.save_outputs
                THEN Write(files, HarmonizedCsv(call.year, cfg),
                           CsvTable(harmonized, harmonized_gdf))
                ELSE files
    /\ pc' = "returned"
    /\ HzUnchangedInputs /\ HzUnchangedXw
    /\ UNCHANGED <<past_gdf, base_gdf, blocks_gdf, err, low_coverage, crosswalk, loaded,
                   results_df, harmonized, harmonized_gdf>>

Next ==
    \/ HzCheckBaseYear
    \/ HzLoadInputs
    \/ HzBuildCrosswalk
    \/ HzSaveCrosswalk
    \/ HzReallocate
    \/ HzSaveGpkg
    \/ HzSaveCsv

Spec == Init /\ [][Next]_vars

\* ---------------------------------------------- harmonize_all, the driver

EarlierYear == "2016"

ConfiguredYears == {EarlierYear, PastYear, BaseYear}

\* the place of a key in sorted(cfg["paths"]["shapefiles"].keys())
YearRank(y) == CASE y = EarlierYear -> 1 [] y = PastYear -> 2 [] y = BaseYear -> 3 [] OTHER -> 0

RECURSIVE SortedYears(_)
SortedYears(ys) ==
    IF ys = {} THEN <<>>
    ELSE LET y == CHOOSE x \in ys : \A z \in ys : YearRank(x) <= YearRank(z)
         IN  <<y>> \o SortedYears(ys \ {y})

\* [y for y in all_years if y != base_year]
\* every configured year, the base year among them
AllYears(c, files_by_year) == SortedYears(DOMAIN files_by_year)

\* non_base_years = [y for y in all_years if y != base_year]
NonBaseYears(c, files_by_year) ==
    LET IsNonBase(y) == y # Str(c.base_year)
    IN  SelectSeq(SortedYears(DOMAIN files_by_year), IsNonBase)

\* an exception that leaves the loop
Reraise(r, year, p, e) ==
    IF p = "raised" THEN [r EXCEPT !.phase = "raised", !.err = e]
    ELSE [r EXCEPT !.phase = "loop"]

\* try: reallocate_votes_to_base(...) except Exception as e: logger.error(...)
TryYear(r, year, p, e) ==
    IF p = "raised" THEN [r EXCEPT !.phase = "loop", !.logged = Append(@, <<year, e>>)]
    ELSE [r EXCEPT !.phase = "loop"]

\* base_gdf_slim.merge(results_df, left_on=base_id, right_on="precinct_id",
\* how="left") with the zero fill, year and D_share
RECURSIVE BaseYearRows(_, _, _)
BaseYearRows(base_rows, results, base_year) ==
    IF base_rows = <<>> THEN <<>>
    ELSE LET b == Head(base_rows)
             Match(r) == r.precinct_id = b.id
             hits == SelectSeq(results, Match)
             Row(d, r, t) == [base_id |-> b.id, geom |-> b.geom, D_votes |-> d,
                              R_votes |-> r, total |-> t, year |-> base_year,
                              D_share |-> DShare(d, t)]
         IN  (IF hits = <<>> THEN <<Row(0, 0, 0)>>
              ELSE [k \in 1..Len(hits) |->
                      Row(hits[k].D_votes, hits[k].R_votes, hits[k].total)])
             \o BaseYearRows(Tail(base_rows), results, base_year)

\* _save_base_year_data: the error raised and the files after the call
_save_base_year_data(c, shapes, results, fs) ==
    LET base_year == Str(c.base_year)
        bs == load_shapefile(shapes[base_year], c.crs)
        rs == load_results_csv(results[base_year], c.id_fields[base_year])
        rows == BaseYearRows(bs.gdf.rows, rs.df, base_year)
    IN  IF bs.err # "" THEN [err |-> bs.err, files |-> fs]
        ELSE IF rs.err # "" THEN [err |-> rs.err, files |-> fs]
        ELSE IF "harmonized_gpkg" \notin c.output
        THEN [err |-> "KeyError: output", files |-> fs]
        ELSE [err |-> "",
              files |-> Write(Write(fs, GpkgLayer(base_year, c), rows),
                              HarmonizedCsv(base_year, c), CsvColumns(rows))]

CfgAll(base_year, out) ==
    [Cfg(base_year, Unset, NoBlocks, None) EXCEPT
        !.id_fields = [y \in ConfiguredYears |-> IF y = BaseYear THEN "BASE_ID" ELSE "PAST_ID"],
        !.output = out]

\* a call of harmonize_all over three configured years whose files may be
\* missing or lack a column
InitAll ==
    /\ pc = "idle"
    /\ err = ""
    /\ past_gdf = NoBlocks
    /\ base_gdf = NoBlocks
    /\ blocks_gdf = NoBlocks
    /\ xw_args = Args(None, None, None, None, 0)
    /\ past_norm = <<>>
    /\ base_norm = <<>>
    /\ overlay = <<>>
    /\ overlays_run = 0
    /\ low_coverage = {}
    /\ crosswalk = <<>>
    /\ loaded = {}
    /\ results_df = <<>>
    /\ harmonized = <<>>
    /\ harmonized_gdf = <<>>
    /\ files = NoFiles
    /\ call = NoCall
    /\ stats = None
    /\ df_long = <<>>
    /\ df = <<>>
    /\ agg = <<>>
    /\ par = <<>>
    /\ \E there \in [ConfiguredYears -> BOOLEAN] :
          shapefiles =
              [y \in ConfiguredYears |->
                  IF ~there[y] THEN NoFile
                  ELSE IF y = BaseYear
                  THEN ShapeFile(TargetCrs, "BASE_ID", BaseIds(NumCells, FALSE),
                                 Pieces(1, NumCells, 1..(NumCells - 1)))
                  ELSE ShapeFile(TargetCrs, "PAST_ID", PastIds(1, TRUE), <<1..NumCells>>)]
    /\ \E f \in [ConfiguredYears \ {BaseYear} ->
                    {NoResults, FixedResults("PAST_ID"), FixedResults("PRECINCT")}] :
          results_csv = [y \in ConfiguredYears |->
                            IF y = BaseYear THEN FixedResults("BASE_ID") ELSE f[y]]
    /\ \E by \in {IntYear(2024), StrYear("2024")}, out \in SUBSET OutputKeys :
          cfg = CfgAll(by, out)
    /\ \E w \in {"area", "pop"} : run = [NoRun EXCEPT !.phase = "start", !.weight = w]

\* the years to process
AllStart ==
    /\ run.phase = "start"
    /\ run' = [run EXCEPT !.phase = "loop",
                          !.non_base_years = NonBaseYears(cfg, shapefiles)]
    /\ UNCHANGED <<xw_vars, shapefiles, results_csv, cfg, call, loaded, results_df,
                   harmonized, harmonized_gdf, files, stats, df_long, df, agg, par>>

\* the next iteration of the loop calls reallocate_votes_to_base
AllBeginYear ==
    /\ run.phase = "loop"
    /\ Len(run.attempted) < Len(run.non_base_years)
    /\ LET year == run.non_base_years[Len(run.attempted) + 1]
       IN  /\ call' = [year |-> year, weight |-> run.weight, save_outputs |-> TRUE]
           /\ run' = [run EXCEPT !.phase = "in_year", !.attempted = Append(@, year)]
    /\ pc' = "hz_start"
    /\ err' = ""
    /\ past_gdf' = NoBlocks
    /\ base_gdf' = NoBlocks
    /\ blocks_gdf' = NoBlocks
    /\ crosswalk' = <<>>
    /\ loaded' = {}
    /\ results_df' = <<>>
    /\ harmonized' = <<>>
    /\ harmonized_gdf' = <<>>
    /\ UNCHANGED <<xw_args, past_norm, base_norm, overlay, overlays_run, low_coverage,
                   shapefiles, results_csv, cfg, files, stats, df_long, df, agg, par>>

\* the call of the iteration has returned or raised
AllEndYear ==
    /\ run.phase = "in_year"
    /\ pc \in {"returned", "raised"}
    /\ run' = TryYear(run, call.year, pc, err)
    /\ UNCHANGED <<xw_vars, shapefiles, results_csv, cfg, call, loaded, results_df,
                   harmonized, harmonized_gdf, files, stats, df_long, df, agg, par>>

\* after the loop: _save_base_year_data, whose exception leaves harmonize_all
AllSaveBaseYear ==
    /\ run.phase = "loop"
    /\ Len(run.attempted) = Len(run.non_base_years)
    /\ LET res == _save_base_year_data(cfg, shapefiles, results_csv, files)
       IN  /\ files' = res.files
           /\ run' = [run EXCEPT !.phase = IF res.err # "" THEN "raised" ELSE "returned",
                                 !.err = res.err]
    /\ UNCHANGED <<xw_vars, shapefiles, results_csv, cfg, call, loaded, results_df,
                   harmonized, harmonized_gdf, stats, df_long, df, agg, par>>

NextAll ==
    \/ AllStart
    \/ AllBeginYear
    \/ HzCheckBaseYear
    \/ HzLoadInputs
    \/ HzBuildCrosswalk
    \/ HzSaveCrosswalk
    \/ HzReallocate
    \/ HzSaveGpkg
    \/ HzSaveCsv
    \/ AllEndYear
    \/ AllSaveBaseYear

SpecAll == InitAll /\ [][NextAll]_vars

\* ------------------------------------------------- claims on the crosswalk

CrosswalkRowsOf(pid) == LET Same(r) == r.past_id = pid IN SelectSeq(crosswalk, Same)

AreaReturned == pc = "returned" /\ xw_args.weight = "area"

\* the base features whose piece of polygon g survives the sliver filter
KeptBase(g) ==
    { j \in 1..Len(base_norm) :
        Area(g \cap base_norm[j].geom) > xw_args.sliver_tolerance }

\* a positive-area piece of g at or below the sliver tolerance
HasSliver(g) ==
    \E j \in 1..Len(base_norm) :
        /\ g \cap base_norm[j].geom # {}
        /\ Area(g \cap base_norm[j].geom) <= xw_args.sliver_tolerance

\* C1: in the crosswalk an area-weighted build_crosswalk returns, the frac of
\* every past polygon that appears in it sum to exactly 1.
C1_FracSumIsOne ==
    AreaReturned =>
        \A k \in 1..Len(crosswalk) :
            FracSumOf(crosswalk, crosswalk[k].past_id) = RInt(1)

\* a past polygon that lost a sliver and is split over two base polygons
C1_Witness ==
    /\ AreaReturned
    /\ \E i \in 1..Len(past_norm) :
          /\ HasSliver(past_norm[i].geom)
          /\ Len(CrosswalkRowsOf(past_norm[i].id)) >= 2

\* the kept pieces of g cover it
FullyCovered(g) ==
    ISum([j \in 1..Len(base_norm) |->
            IF j \in KeptBase(g) THEN Area(g \cap base_norm[j].geom) ELSE 0]) = Area(g)

C2_SplitWitness ==
    /\ AreaReturned
    /\ Len(past_norm) = 1 /\ past_norm[1].geom = 1..5
    /\ Len(base_norm) = 2 /\ base_norm[1].geom = 1..3 /\ base_norm[2].geom = 4..5
    /\ Column(crosswalk, "frac") = <<Rat(3, 5), Rat(2, 5)>>

\* C3: a past polygon has crosswalk rows exactly when one of its pieces
\* exceeds sliver_tolerance; with no such piece at all the call returns an
\* empty table and raises nothing.
C3_RowsIffPiece ==
    /\ AreaReturned =>
          /\ err = ""
          /\ \A i \in 1..Len(past_norm) :
                (CrosswalkRowsOf(past_norm[i].id) # <<>>) <=> (KeptBase(past_norm[i].geom) # {})
    /\ ( /\ xw_args.weight = "area"
         /\ ValidationError(past_gdf, base_gdf, xw_args.past_id, xw_args.base_id,
                            xw_args.weight, blocks_gdf, xw_args.block_pop_field) = "" )
       => pc # "raised"

\* disjoint collections: returned, no row
C3_Witness ==
    /\ AreaReturned
    /\ \A i \in 1..Len(past_norm), j \in 1..Len(base_norm) :
          past_norm[i].geom \cap base_norm[j].geom = {}
    /\ crosswalk = <<>>
    /\ err = ""

\* with pop: the arguments pass the checks and the blocks' CRS is another
BlocksCrsDiffer ==
    /\ ValidationError(past_gdf, base_gdf, xw_args.past_id, xw_args.base_id,
                       xw_args.weight, blocks_gdf, xw_args.block_pop_field) = ""
    /\ xw_args.weight = "pop"
    /\ (blocks_gdf.crs # past_gdf.crs \/ blocks_gdf.crs # base_gdf.crs)

\* C4: a call whose past and base CRS differ raises "CRS mismatch" with no
\* overlay computed and no crosswalk; so does a weight="pop" call whose
\* blocks have another CRS.
C4_CrsMismatchRaises ==
    /\ past_gdf.crs # base_gdf.crs =>
          /\ pc \in {"validate", "raised"}
          /\ overlays_run = 0 /\ crosswalk = <<>>
          /\ pc = "raised" => err = "ValueError: CRS mismatch"
    /\ BlocksCrsDiffer =>
          /\ pc \in {"validate", "normalize", "pop_check", "raised"}
          /\ overlays_run = 0 /\ crosswalk = <<>>
          /\ pc = "raised" => err = "ValueError: CRS mismatch"

C4_Witness ==
    /\ past_gdf.crs # base_gdf.crs
    /\ pc = "raised"
    /\ err = "ValueError: CRS mismatch"
    /\ overlays_run = 0

\* the blocks' CRS differs: raised before the block overlays
C4_BlocksWitness ==
    BlocksCrsDiffer /\ pc = "raised" /\ err = "ValueError: CRS mismatch"

\* ---------------------------------------------- claims on the reallocation

\* reallocate_votes_to_base has built harmonized_gdf
Reallocated == pc \in {"hz_save_gpkg", "hz_save_csv", "returned"}

SumOf(tab, col) == ISum(Column(tab, col))

\* the aggregated columns before rounding
UnroundedByBase == AllocatedByBase(Allocated(CrosswalkWithVotes(crosswalk, results_df)))

\* every past polygon of the results has crosswalk rows whose frac sum to 1
FracsSumToOne ==
    \A k \in 1..Len(results_df) :
        /\ CrosswalkRowsOf(results_df[k].precinct_id) # <<>>
        /\ FracSumOf(crosswalk, results_df[k].precinct_id) = RInt(1)

\* C5: when every past polygon of the results has crosswalk rows whose frac
\* sum to 1, the D_votes (and the R_votes) of the returned table sum to the
\* D_votes (R_votes) of the results, within one vote per base polygon
C5_VotesConserved ==
    (pc = "returned" /\ FracsSumToOne) =>
        /\ Abs(SumOf(harmonized_gdf, "D_votes") - SumOf(results_df, "D_votes"))
              <= Len(harmonized_gdf)
        /\ Abs(SumOf(harmonized_gdf, "R_votes") - SumOf(results_df, "R_votes"))
              <= Len(harmonized_gdf)

\* the base shapefile spells its identifiers as ensure_id_consistency leaves them
BaseIdsNormalized ==
    \A k \in 1..Len(base_gdf.rows) : NormalizeId(base_gdf.rows[k].id) = base_gdf.rows[k].id

\* the conservation of C5 for base identifiers that need no normalization:
\* the sums differ by the rounding alone, half a vote per base polygon
VotesConservedForNormalizedIds ==
    (pc = "returned" /\ FracsSumToOne /\ BaseIdsNormalized) =>
        /\ 2 * Abs(SumOf(harmonized_gdf, "D_votes") - SumOf(results_df, "D_votes"))
              <= Len(harmonized_gdf)
        /\ 2 * Abs(SumOf(harmonized_gdf, "R_votes") - SumOf(results_df, "R_votes"))
              <= Len(harmonized_gdf)

\* a call where the rounding moves the sum
RoundingMovesSum ==
    /\ pc = "returned" /\ FracsSumToOne /\ BaseIdsNormalized
    /\ SumOf(harmonized_gdf, "D_votes") # SumOf(results_df, "D_votes")

\* C6: in every harmonized record D_share lies in [0, 1] when total > 0 and
\* is 0 when total = 0, D_votes and total being rounded independently
C6_ShareInRange ==
    Reallocated =>
        \A k \in 1..Len(harmonized_gdf) :
            LET h == harmonized_gdf[k]
            IN  /\ h.total > 0 => RLeq(RInt(0), h.D_share) /\ RLeq(h.D_share, RInt(1))
                /\ h.total = 0 => h.D_share = RInt(0)

\* the results hold counts: no negative number
CountsNonNegative ==
    \A k \in 1..Len(results_df) : results_df[k].D_votes >= 0 /\ results_df[k].R_votes >= 0

\* the range of C6 for results that hold counts
ShareInRangeForCounts ==
    (Reallocated /\ CountsNonNegative) =>
        \A k \in 1..Len(harmonized_gdf) :
            LET h == harmonized_gdf[k]
            IN  /\ h.total > 0 => RLeq(RInt(0), h.D_share) /\ RLeq(h.D_share, RInt(1))
                /\ h.total = 0 => h.D_share = RInt(0)

\* a record whose D_votes and total were both rounded from a fraction, next
\* to a record without votes
RoundedIndependently ==
    /\ pc = "returned" /\ CountsNonNegative
    /\ \E j \in 1..Len(harmonized) :
          /\ UnroundedByBase[j].D_votes.d > 1
          /\ UnroundedByBase[j].total.d > 1
          /\ harmonized[j].total > 0
    /\ \E k \in 1..Len(harmonized_gdf) :
          harmonized_gdf[k].total = 0 /\ harmonized_gdf[k].D_share = RInt(0)

\* C7: a call for the base year raises "Cannot harmonize base year" before
\* any shapefile or results file is loaded and before anything is written
C7_BaseYearRaisesFirst ==
    call.year = Str(cfg.base_year) =>
        /\ pc \in {"hz_start", "raised"}
        /\ pc = "raised" => err = "ValueError: Cannot harmonize base year"
        /\ loaded = {}
        /\ files = NoFiles

C7_Witness ==
    /\ call.year = Str(cfg.base_year)
    /\ pc = "raised"
    /\ shapefiles[call.year].exists
    /\ results_csv[call.year].exists

\* the base polygons without a crosswalk row
WithoutCrosswalkRow(b) ==
    \A k \in 1..Len(crosswalk) : crosswalk[k].base_id # NormalizeId(b.id)

\* C8: the returned table has exactly one record per base polygon, in the
\* order of the base layer; a base polygon without a crosswalk row has
\* D_votes = R_votes = total = 0, D_share = 0 and the year set
C8_OneRecordPerBase ==
    Reallocated =>
        /\ Len(harmonized_gdf) = Len(base_gdf.rows)
        /\ \A k \in 1..Len(harmonized_gdf) :
              LET h == harmonized_gdf[k]
                  b == base_gdf.rows[k]
              IN  /\ h.base_id = b.id
                  /\ h.geom = b.geom
                  /\ h.year = call.year
                  /\ WithoutCrosswalkRow(b) =>
                        /\ h.D_votes = 0 /\ h.R_votes = 0 /\ h.total = 0
                        /\ h.D_share = RInt(0)

C8_Witness ==
    /\ pc = "returned"
    /\ \E k \in 1..Len(harmonized_gdf) : WithoutCrosswalkRow(base_gdf.rows[k])
    /\ \E k \in 1..Len(harmonized_gdf) : harmonized_gdf[k].total > 0

\* C9: the harmonized CSV holds a row for every base polygon, the records of
\* the returned table and of the GeoPackage layer
C9_CsvHasEveryBase ==
    (pc = "returned" /\ call.save_outputs) =>
        /\ Range(files[HarmonizedCsv(call.year, cfg)]) = Range(CsvColumns(harmonized_gdf))
        /\ Range(files[HarmonizedCsv(call.year, cfg)])
              = Range(CsvColumns(files[GpkgLayer(call.year, cfg)]))

\* the base polygons the CSV has no row for, in a call whose base
\* identifiers need no normalization
CsvLacksBase ==
    /\ pc = "returned" /\ call.save_outputs /\ BaseIdsNormalized
    /\ \E k \in 1..Len(base_gdf.rows) :
          \A r \in Range(files[HarmonizedCsv(call.year, cfg)]) :
              r.base_id # base_gdf.rows[k].id

\* some crosswalk row has a past_id without a row in the results
MissingPast == {crosswalk[k].past_id : k \in 1..Len(crosswalk)}
                  \ {results_df[k].precinct_id : k \in 1..Len(results_df)}

\* the crosswalk without the rows of the missing past polygons
PresentRows == LET Present(x) == x.past_id \notin MissingPast IN SelectSeq(crosswalk, Present)

AllocatedSum(col) == RSum(Column(Allocated(CrosswalkWithVotes(PresentRows, results_df)), col))

\* 2 * votes <= 2 * allocated + polygons
WithinRounding(votes, allocated, polygons) ==
    RLeq(RInt(2 * votes), RAdd(RMul(RInt(2), allocated), RInt(polygons)))

HarmonizedFor(b) == LET Same(h) == h.base_id = NormalizeId(b.id) IN SelectSeq(harmonized, Same)

\* the join of the crosswalk with the results on the past id: a past polygon
\* and a results row whose raw identifiers have one normalized form meet
PastJoinIsNormalized ==
    Reallocated =>
        \A x \in Range(past_gdf.rows), r \in Range(results_csv[call.year].rows) :
            NormalizeId(x.id) = NormalizeId(r.id) => NormalizeId(x.id) \notin MissingPast

\* a past polygon and a results row that differ in their raw identifiers meet
RawPastIdMatched ==
    /\ pc = "returned"
    /\ \E x \in Range(past_gdf.rows), r \in Range(results_csv[call.year].rows) :
          /\ x.id # r.id
          /\ NormalizeId(x.id) = NormalizeId(r.id)
          /\ \E k \in 1..Len(crosswalk) : crosswalk[k].past_id = NormalizeId(x.id)

\* C11: identifiers are normalized on both sides of both joins of the
\* harmonization, so every base polygon, whatever the case and padding of
\* its raw identifier, carries the votes allocated to its normalized identifier
C11_BothJoinsNormalized ==
    Reallocated =>
        /\ \A x \in Range(past_gdf.rows), r \in Range(results_csv[call.year].rows) :
              NormalizeId(x.id) = NormalizeId(r.id) => NormalizeId(x.id) \notin MissingPast
        /\ \A k \in 1..Len(harmonized_gdf) :
              LET hits == HarmonizedFor(base_gdf.rows[k])
              IN  hits # <<>> =>
                     /\ harmonized_gdf[k].D_votes = hits[1].D_votes
                     /\ harmonized_gdf[k].R_votes = hits[1].R_votes
                     /\ harmonized_gdf[k].total = hits[1].total

\* ------------------------------------------------- claims on the outputs

\* the outputs of the year of the call that are on disk
OutputsOfYear ==
    {CrosswalkCsv(call.year, cfg), GpkgLayer(call.year, cfg), HarmonizedCsv(call.year, cfg)}
        \cap DOMAIN files

\* C13: a call that fails leaves no output of its year persisted: the
\* crosswalk CSV, the GeoPackage layer and the harmonized CSV are written
\* all three by a call that returns, and none by a call that raises
C13_AllOutputsOrNone ==
    /\ pc = "raised" => OutputsOfYear = {}
    /\ (pc = "returned" /\ call.save_outputs) =>
          OutputsOfYear = {CrosswalkCsv(call.year, cfg), GpkgLayer(call.year, cfg),
                           HarmonizedCsv(call.year, cfg)}

\* the failures ahead of the first write leave nothing behind
NothingWrittenBeforeCrosswalk ==
    (pc = "raised" /\ crosswalk = <<>> /\ harmonized_gdf = <<>> /\ "crosswalk_dir" \in cfg.output)
        => files = NoFiles

\* a call that raised after it had written the crosswalk CSV
CrosswalkCsvLeftBehind ==
    /\ pc = "raised"
    /\ DOMAIN files = {CrosswalkCsv(call.year, cfg)}

\* ---------------------------------------- claims on population weighting

\* build_crosswalk on its own: weight="pop" without blocks or without a
\* population field raises and returns no crosswalk
XwPopNeedsInputs ==
    (xw_args.weight = "pop" /\ (blocks_gdf = NoBlocks \/ xw_args.block_pop_field = None)) =>
        /\ pc \in {"validate", "raised"}
        /\ crosswalk = <<>>

XwPopInputsMissing ==
    /\ pc = "raised"
    /\ xw_args.weight = "pop"
    /\ blocks_gdf = NoBlocks \/ xw_args.block_pop_field = None
    /\ err = "ValueError: Population weighting requires blocks_gdf and block_pop_field"

\* C14: weight="pop" without a blocks collection or without a population
\* field is fatal for the year: the call produces no crosswalk and no
\* harmonized output
C14_PopNeedsInputs ==
    (call.weight = "pop" /\ (cfg.blocks_gpkg = NoBlocks \/ cfg.block_pop_field = None)) =>
        /\ pc # "returned"
        /\ crosswalk = <<>>
        /\ harmonized_gdf = <<>>
        /\ files = NoFiles

\* with blocks configured and no population field the call raises
PopFieldMissingRaises ==
    (call.weight = "pop" /\ cfg.blocks_gpkg # NoBlocks /\ cfg.block_pop_field = None) =>
        /\ pc # "returned"
        /\ crosswalk = <<>>
        /\ harmonized_gdf = <<>>
        /\ files = NoFiles

\* a weight="pop" call without blocks that returned an area-weighted table
PopFellBackToArea ==
    /\ pc = "returned"
    /\ call.weight = "pop"
    /\ cfg.blocks_gpkg = NoBlocks
    /\ crosswalk # <<>>
    /\ crosswalk = _build_area_crosswalk(NormalizedRows(past_gdf.rows),
                                         NormalizedRows(base_gdf.rows), SliverToleranceOf(cfg))
    /\ HarmonizedCsv(call.year, cfg) \in DOMAIN files

FracInRange(x) == RLess(RInt(0), x.frac) /\ RLeq(x.frac, RInt(1))

\* C15: every row of a crosswalk build_crosswalk returns, area- or
\* population-weighted, has a defined frac with 0 < frac <= 1
C15_FracInRange ==
    pc = "returned" => \A k \in 1..Len(crosswalk) : FracInRange(crosswalk[k])

\* the range of C15 for weight="area"
AreaFracInRange ==
    AreaReturned => \A k \in 1..Len(crosswalk) : FracInRange(crosswalk[k])

\* an area-weighted crosswalk with a frac below 1
AreaFracBelowOne ==
    AreaReturned /\ \E k \in 1..Len(crosswalk) : RLess(crosswalk[k].frac, RInt(1))

\* a population-weighted crosswalk with an undefined frac, and one with frac = 0
PopFracUndefined ==
    /\ pc = "returned" /\ xw_args.weight = "pop"
    /\ \E k \in 1..Len(crosswalk) : IsNaN(crosswalk[k].frac)

PopFracZero ==
    /\ pc = "returned" /\ xw_args.weight = "pop"
    /\ \E k \in 1..Len(crosswalk) : crosswalk[k].frac = RInt(0)

PopReturned == pc = "returned" /\ xw_args.weight = "pop"

\* crosswalk_blocks of the call: one row per (past, base) pair and shared block
FlowsOfCall == CrosswalkBlocks(BlockPop(overlay[1]), BlockPop(overlay[2]))

FlowsOfBlock(j) == LET Same(r) == r.block_id = j IN SelectSeq(FlowsOfCall, Same)

\* the population of block j, as _pop holds it
PopOfBlock(j) == ToNumericFill0(blocks_gdf.rows[j].pop)

\* the polygons of one side that hold a part of block j
SharersOfBlock(block_pop, j) == Cardinality({r.id : r \in {x \in Range(block_pop) : x.block_id = j}})

\* the flow of every pair from a block exceeds neither allocation
FlowWithinAllocations ==
    \A k \in 1..Len(FlowsOfCall) :
        /\ RLeq(FlowsOfCall[k].pop_flow, FlowsOfCall[k].past_pop)
        /\ RLeq(FlowsOfCall[k].pop_flow, FlowsOfCall[k].base_pop)

CoveredFraction(pid) ==
    FracSumOf(AreaFractions(FilterSlivers(overlay, xw_args.sliver_tolerance)), pid)

AreaWithOverlap == AreaReturned /\ overlay # <<>>

PopWarnsOnlyUndefined ==
    (pc = "returned" /\ xw_args.weight = "pop") =>
        \A k \in 1..Len(crosswalk) :
            crosswalk[k].past_id \in low_coverage => IsNaN(crosswalk[k].frac)

\* ---------------------------------------------------- claims on the driver

LoopOver == run.phase \in {"returned", "raised"}

\* the years of run.attempted whose call is over
FinishedYears ==
    IF run.phase = "in_year"
    THEN {run.attempted[k] : k \in 1..(Len(run.attempted) - 1)}
    ELSE Range(run.attempted)

LoggedYears == {run.logged[k][1] : k \in 1..Len(run.logged)}

\* the call for year y wrote its last output
YearHarmonized(y) == HarmonizedCsv(y, cfg) \in DOMAIN files

\* a year whose call is over either wrote its harmonized CSV or had its
\* error logged, and an exception leaves harmonize_all only after every
\* year was attempted
FailuresLogged ==
    /\ \A y \in FinishedYears : YearHarmonized(y) \/ y \in LoggedYears
    /\ LoggedYears \subseteq FinishedYears
    /\ run.err # "" => Len(run.attempted) = Len(run.non_base_years)

\* the positions of a call of reallocate_votes_to_base
HzPositions == {"hz_start", "hz_load", "hz_crosswalk", "hz_save_crosswalk", "hz_reallocate",
                "hz_save_gpkg", "hz_save_csv", "returned", "raised"}

\* until harmonize_all is over the loop has a step to take: the call under
\* way goes on or has ended, and between two calls the next year or the
\* base year follows
LoopGoesOn ==
    \/ LoopOver
    \/ run.phase = "start"
    \/ run.phase = "in_year" /\ pc \in HzPositions
    \/ run.phase = "loop" /\ Len(run.attempted) <= Len(run.non_base_years)

\* when harmonize_all is over every configured non-base year was attempted,
\* once each
EveryYearAttempted ==
    LoopOver =>
        /\ Range(run.attempted) = DOMAIN shapefiles \ {Str(cfg.base_year)}
        /\ Len(run.attempted) = Cardinality(Range(run.attempted))

\* C12: in harmonize_all the error of a failed year is logged and the year
\* skipped, the error does not leave harmonize_all, the loop goes on, and
\* every configured non-base year has been attempted when harmonize_all ends
C12_FailuresIsolated == FailuresLogged /\ LoopGoesOn /\ EveryYearAttempted

\* the first year failed, and the year after it was harmonized
C12_Witness ==
    /\ LoopOver
    /\ Len(run.logged) = 1
    /\ run.logged[1][1] = run.attempted[1]
    /\ YearHarmonized(run.attempted[2])

\* ------------------------------------------------------ validate_crosswalk

\* the first element instead of the smallest
FirstOf(s) == IF s = <<>> THEN NaN ELSE s[1]

\* Series.min(): the smallest element, NaN for an empty series
RECURSIVE RMinOf(_)
RMinOf(s) == IF s = <<>> THEN NaN ELSE RMin(Head(s), RMinOf(Tail(s)))

\* Series.max() of counts
RECURSIVE IMaxOf(_)
IMaxOf(s) == IF s = <<>> THEN 0
             ELSE LET m == IMaxOf(Tail(s)) IN IF Head(s) >= m THEN Head(s) ELSE m

\* crosswalk.groupby(past_id)["frac"].sum()
FracSums(xw) ==
    LET keys == Distinct(Column(xw, "past_id"))
    IN  [k \in 1..Len(keys) |-> FracSumOf(xw, keys[k])]

\* crosswalk.groupby(past_id).size()
NSplits(xw) ==
    LET keys == Distinct(Column(xw, "past_id"))
    IN  [k \in 1..Len(keys) |->
            Cardinality({j \in 1..Len(xw) : xw[j].past_id = keys[k]})]

\* (series < 0.98).sum() and (series == 1).sum()
CountBelow(s, bound) == Cardinality({k \in 1..Len(s) : RLess(s[k], bound)})

CountEqual(s, v) == Cardinality({k \in 1..Len(s) : s[k] = v})

\* validate_crosswalk: the dictionary returned; the means of an empty
\* crosswalk are NaN
validate_crosswalk(xw) ==
    LET frac_sums == FracSums(xw)
        n_splits == NSplits(xw)
    IN  [n_past_precincts |-> Len(frac_sums),
         mean_coverage |-> RDiv(RSum(frac_sums), RInt(Len(frac_sums))),
         min_coverage |-> RMinOf(frac_sums),
         n_incomplete |-> CountBelow(frac_sums, CoverageThreshold),
         mean_splits |-> RDiv(RInt(ISum(n_splits)), RInt(Len(n_splits))),
         max_splits |-> IMaxOf(n_splits),
         n_one_to_one |-> CountEqual(n_splits, 1)]

\* the frac of a crosswalk row: fractions of build_crosswalk, among them
\* the undefined frac of a pair without population
FracValues == {Rat(1, 4), Rat(1, 2), RInt(1), NaN}

ValPairs(n) == {<<p, b>> : p \in 1..2, b \in 1..n}

RECURSIVE ValRows(_, _)
ValRows(pairs, f) ==
    IF pairs = {} THEN <<>>
    ELSE LET pr == CHOOSE x \in pairs :
                      \A y \in pairs : x[1] < y[1] \/ (x[1] = y[1] /\ x[2] <= y[2])
         IN  <<[past_id |-> PastRawId(pr[1], FALSE), base_id |-> BaseRawId(pr[2], FALSE),
                frac |-> f[pr]]>> \o ValRows(pairs \ {pr}, f)

\* the crosswalks handed to validate_crosswalk: any pairs of two past
\* polygons with n base polygons, any frac, the empty crosswalk too
ValCrosswalks(n) ==
    UNION { {ValRows(prs, f) : f \in [prs -> FracValues]} : prs \in SUBSET ValPairs(n) }

InitVal ==
    /\ pc = "validate_crosswalk"
    /\ err = ""
    /\ past_gdf = NoBlocks
    /\ base_gdf = NoBlocks
    /\ blocks_gdf = NoBlocks
    /\ xw_args = Args("PAST_ID", None, None, None, 0)
    /\ past_norm = <<>>
    /\ base_norm = <<>>
    /\ overlay = <<>>
    /\ overlays_run = 0
    /\ low_coverage = {}
    /\ crosswalk \in ValCrosswalks(MaxSplits)
    /\ HzIdle /\ OthersIdle

\* validate_crosswalk(crosswalk, past_id)
ValidateCrosswalk ==
    /\ pc = "validate_crosswalk"
    /\ stats' = validate_crosswalk(crosswalk)
    /\ pc' = "returned"
    /\ UNCHANGED <<past_gdf, base_gdf, blocks_gdf, xw_args, err, past_norm, base_norm,
                   overlay, overlays_run, low_coverage, crosswalk>>
    /\ UNCHANGED <<shapefiles, results_csv, cfg, call, loaded, results_df, harmonized,
                   harmonized_gdf, files, run, df_long, df, agg, par>>

NextVal == ValidateCrosswalk

SpecVal == InitVal /\ [][NextVal]_vars

\* -------------------------------------------- claims on validate_crosswalk

PastOf(xw) == {xw[k].past_id : k \in 1..Len(xw)}

RowsOfPast(xw, p) == {k \in 1..Len(xw) : xw[k].past_id = p}

\* the sum of the defined frac of past polygon p
CoverageOf(xw, p) ==
    LET Defined(r) == r.past_id = p /\ ~IsNaN(r.frac)
    IN  RSum(Column(SelectSeq(xw, Defined), "frac"))

\* the statistics the claim names, for the crosswalk at hand
StatsAsSpecified ==
    LET P == PastOf(crosswalk)
        n == RInt(Cardinality(P))
    IN  /\ stats.n_past_precincts = Cardinality(P)
        /\ RMul(stats.mean_coverage, n) = RSum(Column(crosswalk, "frac"))
        /\ \A p \in P : RLeq(stats.min_coverage, CoverageOf(crosswalk, p))
        /\ \E p \in P : stats.min_coverage = CoverageOf(crosswalk, p)
        /\ stats.n_incomplete =
              Cardinality({p \in P : RLess(CoverageOf(crosswalk, p), Rat(98, 100))})
        /\ RMul(stats.mean_splits, n) = RInt(Len(crosswalk))
        /\ \A p \in P : Cardinality(RowsOfPast(crosswalk, p)) <= stats.max_splits
        /\ \E p \in P : Cardinality(RowsOfPast(crosswalk, p)) = stats.max_splits
        /\ stats.n_one_to_one =
              Cardinality({p \in P : Cardinality(RowsOfPast(crosswalk, p)) = 1})

\* the call returns without an error and leaves the crosswalk as it was
ValidateReturns ==
    (pc = "validate_crosswalk" /\ crosswalk # <<>>) =>
        pc' = "returned" /\ err' = "" /\ crosswalk' = crosswalk

\* C18: validate_crosswalk on a non-empty crosswalk returns without an
\* error, whatever the coverage, leaves the crosswalk as it was, and returns
\* the number of past polygons, the mean and the minimum of their frac sums,
\* the number of them below 0.98, and the mean, the maximum and the
\* one-to-one count of their rows
C18_StatsOfCrosswalk ==
    /\ []((pc = "returned" /\ crosswalk # <<>>) => StatsAsSpecified)
    /\ [][ValidateReturns]_vars

\* statistics of a crosswalk with a past polygon below 0.98, another one
\* above, one split and one mapped one-to-one
C18_Witness ==
    /\ pc = "returned"
    /\ stats.n_past_precincts = 2
    /\ stats.n_incomplete = 1
    /\ stats.n_one_to_one = 1
    /\ stats.max_splits = 2
    /\ RLess(stats.min_coverage, stats.mean_coverage)

\* ----------------------------------------- metrics: compute_two_party_metrics

RSub(a, b) == RAdd(a, [n |-> -b.n, d |-> b.d])

\* the years of the table, as the strings the harmonized layers hold
MetricYear(k) == CASE k = 1 -> "2016" [] k = 2 -> "2020" [] k = 3 -> "2024"
                   [] k = 4 -> "2028" [] OTHER -> "2032"

\* the order of two year strings
MetricYearRank(y) == CHOOSE k \in 1..5 : MetricYear(k) = y

\* the order of two identifiers
MetricIdRank(id) == CHOOSE k \in 1..2 : BaseRawId(k, FALSE) = id

\* df.sort_values([base_id, "year"]): is row a placed before row b
SortsBefore(a, b) ==
    \/ MetricIdRank(a[1]) < MetricIdRank(b[1])
    \/ a[1] = b[1] /\ MetricYearRank(a[2]) < MetricYearRank(b[2])

\* the rows of the table by key, in the order the sort gives them
RECURSIVE SortValues(_)
SortValues(tab) ==
    IF tab = <<>> THEN <<>>
    ELSE LET Key(k) == <<tab[k].id, tab[k].year>>
             first == CHOOSE k \in 1..Len(tab) :
                         \A j \in 1..Len(tab) :
                             ~SortsBefore(Key(j), Key(k)) /\ (Key(j) = Key(k) => k <= j)
         IN  <<tab[first]>> \o SortValues([k \in 1..(Len(tab) - 1) |->
                                              IF k < first THEN tab[k] ELSE tab[k + 1]])

\* the shift that takes the row before, whatever its polygon
ShiftAcrossGroups(tab, k, col) == IF k = 1 THEN NaN ELSE tab[k - 1][col]

\* df.groupby(base_id)[col].shift(1), for row k of the sorted table
ShiftInGroup(tab, k, col) ==
    IF k > 1 /\ tab[k - 1].id = tab[k].id THEN tab[k - 1][col] ELSE NaN

\* df["year"].max()
YearMax(tab) ==
    CHOOSE y \in {tab[k].year : k \in 1..Len(tab)} :
        \A k \in 1..Len(tab) : MetricYearRank(tab[k].year) <= MetricYearRank(y)

\* df["year"].min()
YearMin(tab) ==
    CHOOSE y \in {tab[k].year : k \in 1..Len(tab)} :
        \A k \in 1..Len(tab) : MetricYearRank(y) <= MetricYearRank(tab[k].year)

\* the D_share of the polygon's first row, whatever its year
FirstShare(tab, id, year) ==
    LET Same(r) == r.id = id
    IN  SelectSeq(tab, Same)[1].D_share

\* df.merge(shares, on=base_id, how="left"): the D_share of polygon id in
\* the reference year, NaN when the polygon has no row in that year
ReferenceShare(tab, id, year) ==
    LET Ref(r) == r.id = id /\ r.year = year
        hits == SelectSeq(tab, Ref)
    IN  IF hits = <<>> THEN NaN ELSE hits[1].D_share

\* the previous turnout as it is
KeepZero(q) == q

\* turnout_prev.replace(0, pd.NA)
ReplaceZero(q) == IF q = RInt(0) THEN NaN ELSE q

\* compute_two_party_metrics: the table returned
compute_two_party_metrics(tab) ==
    IF tab = <<>> THEN <<>>
    ELSE LET sorted == SortValues(tab)
             earliest_year == YearMin(sorted)
             latest_year == YearMax(sorted)
         IN  [k \in 1..Len(sorted) |->
                LET r == sorted[k]
                    D_share_prev == ShiftInGroup(sorted, k, "D_share")
                    D_share_earliest == ReferenceShare(sorted, r.id, earliest_year)
                    D_share_latest == ReferenceShare(sorted, r.id, latest_year)
                    turnout_prev == ShiftInGroup(sorted, k, "total")
                    turnout_change_yoy == RSub(r.total, turnout_prev)
                IN  [id |-> r.id, year |-> r.year, D_votes |-> r.D_votes,
                     R_votes |-> r.R_votes, D_share |-> r.D_share, total |-> r.total,
                     D_share_prev |-> D_share_prev,
                     swing_yoy |-> RSub(r.D_share, D_share_prev),
                     D_share_earliest |-> D_share_earliest,
                     D_share_latest |-> D_share_latest,
                     swing_vs |-> [y \in {earliest_year, latest_year} |->
                                     IF y = latest_year
                                     THEN RSub(r.D_share, D_share_latest)
                                     ELSE RSub(r.D_share, D_share_earliest)],
                     turnout |-> r.total,
                     turnout_prev |-> turnout_prev,
                     turnout_change_yoy |-> turnout_change_yoy,
                     turnout_change_yoy_pct |->
                         RDiv(turnout_change_yoy, ReplaceZero(turnout_prev))]]

\* a harmonized record with its derived columns
MetricRecord(d, r) ==
    [D_votes |-> RInt(d), R_votes |-> RInt(r), total |-> RInt(d + r),
     D_share |-> DShare(d, d + r)]

\* the harmonized records a polygon may have in a year: an even split of
\* two votes, three votes for one party
MetricRecords == {MetricRecord(1, 1), MetricRecord(3, 0)}

\* the same with the record of a polygon without votes
TurnoutRecords == MetricRecords \cup {MetricRecord(0, 0)}

MetricKeys(n) == {<<p, y>> : p \in 1..2, y \in 1..n}

\* the rows of the keys, one year's layer after the other as
\* build_timeseries_table concatenates them
RECURSIVE ByYear(_, _)
ByYear(keys, f) ==
    IF keys = {} THEN <<>>
    ELSE LET key == CHOOSE x \in keys :
                       \A z \in keys : x[2] < z[2] \/ (x[2] = z[2] /\ x[1] <= z[1])
         IN  <<[id |-> BaseRawId(key[1], FALSE), year |-> MetricYear(key[2]),
                D_votes |-> f[key].D_votes, R_votes |-> f[key].R_votes,
                total |-> f[key].total, D_share |-> f[key].D_share]>>
             \o ByYear(keys \ {key}, f)

Reversed(tab) == [k \in 1..Len(tab) |-> tab[Len(tab) + 1 - k]]

\* the long tables: any polygon-years of two polygons in n years, each
\* once, in the order of the layers or in the opposite order
LongTables(n) ==
    UNION { UNION { {ByYear(keys, f), Reversed(ByYear(keys, f))}
                    : f \in [keys -> MetricRecords] }
            : keys \in SUBSET MetricKeys(n) }

\* the long tables of one polygon whose years may be without votes
TurnoutTables(n) ==
    UNION { {ByYear(keys, f) : f \in [keys -> TurnoutRecords]}
            : keys \in SUBSET {<<1, y>> : y \in 1..n} }

InitMetrics ==
    /\ pc \in {"compute_two_party_metrics", "county_aggregates"}
    /\ err = ""
    /\ past_gdf = NoBlocks
    /\ base_gdf = NoBlocks
    /\ blocks_gdf = NoBlocks
    /\ xw_args = Args(None, None, None, None, 0)
    /\ past_norm = <<>>
    /\ base_norm = <<>>
    /\ overlay = <<>>
    /\ overlays_run = 0
    /\ low_coverage = {}
    /\ crosswalk = <<>>
    /\ HzIdle
    /\ run = NoRun
    /\ stats = None
    /\ df_long \in LongTables(NumYears) \cup TurnoutTables(NumYears)
    /\ df = <<>>
    /\ agg = <<>>
    /\ par = <<>>

\* compute_two_party_metrics(df_long, base_id)
ComputeTwoPartyMetrics ==
    /\ pc = "compute_two_party_metrics"
    /\ df' = compute_two_party_metrics(df_long)
    /\ pc' = "returned"
    /\ UNCHANGED <<past_gdf, base_gdf, blocks_gdf, xw_args, err, past_norm, base_norm,
                   overlay, overlays_run, low_coverage, crosswalk>>
    /\ UNCHANGED <<shapefiles, results_csv, cfg, call, loaded, results_df, harmonized,
                   harmonized_gdf, files, run, stats, df_long, agg, par>>

\* the unweighted mean of the polygons' D_share
MeanShare(rows) == RDiv(RSum(Column(rows, "D_share")), RInt(Len(rows)))

\* agg["D_share"] = agg["D_votes"] / agg["total"], for the rows of one year
CountyShare(rows) == RDiv(RSum(Column(rows, "D_votes")), RSum(Column(rows, "total")))

\* df_long.groupby("year").agg(sum).reset_index() with D_share, in the
\* order of the years
GroupByYear(tab) ==
    LET years == {tab[k].year : k \in 1..Len(tab)}
        ranks == {MetricYearRank(y) : y \in years}
        RankAt(k) == CHOOSE i \in ranks : Cardinality({j \in ranks : j < i}) = k - 1
    IN  [k \in 1..Cardinality(years) |->
            LET OfYear(r) == r.year = MetricYear(RankAt(k))
                rows == SelectSeq(tab, OfYear)
            IN  [year |-> MetricYear(RankAt(k)),
                 D_votes |-> RSum(Column(rows, "D_votes")),
                 R_votes |-> RSum(Column(rows, "R_votes")),
                 total |-> RSum(Column(rows, "total")),
                 D_share |-> CountyShare(rows)]]

\* county_aggregates: the table returned
county_aggregates(tab) ==
    LET by_year == GroupByYear(tab)
    IN  [k \in 1..Len(by_year) |->
            LET a == by_year[k]
                D_share_prev == IF k = 1 THEN NaN ELSE by_year[k - 1].D_share
                turnout_prev == IF k = 1 THEN NaN ELSE by_year[k - 1].total
            IN  [year |-> a.year, D_votes |-> a.D_votes, R_votes |-> a.R_votes,
                 total |-> a.total, D_share |-> a.D_share,
                 D_share_prev |-> D_share_prev,
                 swing_yoy |-> RSub(a.D_share, D_share_prev),
                 turnout |-> a.total,
                 turnout_prev |-> turnout_prev,
                 turnout_change_yoy |-> RSub(a.total, turnout_prev),
                 turnout_change_yoy_pct |-> RDiv(RSub(a.total, turnout_prev), turnout_prev)]]

\* county_aggregates(df_long)
CountyAggregates ==
    /\ pc = "county_aggregates"
    /\ agg' = county_aggregates(df_long)
    /\ pc' = "aggregated"
    /\ UNCHANGED <<past_gdf, base_gdf, blocks_gdf, xw_args, err, past_norm, base_norm,
                   overlay, overlays_run, low_coverage, crosswalk>>
    /\ UNCHANGED <<shapefiles, results_csv, cfg, call, loaded, results_df, harmonized,
                   harmonized_gdf, files, run, stats, df_long, df, par>>

NextMetrics == ComputeTwoPartyMetrics \/ CountyAggregates

SpecMetrics == InitMetrics /\ [][NextMetrics]_vars

\* ------------------------------------------------------ claims on metrics

MetricsReturned == pc = "returned" /\ df_long # <<>>

\* the rows of the argument for polygon id in the years before year
EarlierRows(id, year) ==
    {r \in Range(df_long) : r.id = id /\ MetricYearRank(r.year) < MetricYearRank(year)}

\* the latest of them
PreviousRow(id, year) ==
    CHOOSE r \in EarlierRows(id, year) :
        \A x \in EarlierRows(id, year) : MetricYearRank(x.year) <= MetricYearRank(r.year)

\* the table returned has the polygon-years of the argument, each once,
\* with their D_share
SamePolygonYears ==
    /\ Len(df) = Len(df_long)
    /\ {[id |-> r.id, year |-> r.year, D_share |-> r.D_share] : r \in Range(df)}
         = {[id |-> r.id, year |-> r.year, D_share |-> r.D_share] : r \in Range(df_long)}

\* C19: swing_yoy of a polygon-year is the polygon's D_share minus its
\* D_share in the previous year the polygon has a row for, and null in the
\* polygon's first year; where the D_share did not change it is 0
C19_SwingYoY ==
    MetricsReturned =>
        /\ SamePolygonYears
        /\ \A r \in Range(df) :
              IF EarlierRows(r.id, r.year) = {}
              THEN IsNaN(r.swing_yoy)
              ELSE /\ r.swing_yoy = RSub(r.D_share, PreviousRow(r.id, r.year).D_share)
                   /\ PreviousRow(r.id, r.year).D_share = r.D_share
                          => r.swing_yoy = RInt(0)

\* a table not sorted by polygon and year, with a polygon that has no row
\* in the middle year, a swing from its first to its last year, and a
\* polygon whose D_share stays
C19_Witness ==
    /\ MetricsReturned
    /\ df_long # SortValues(df_long)
    /\ \E r \in Range(df) :
          /\ r.year = MetricYear(3)
          /\ EarlierRows(r.id, r.year) # {}
          /\ PreviousRow(r.id, r.year).year = MetricYear(1)
          /\ r.swing_yoy = Rat(-1, 2)
    /\ \E r \in Range(df) : r.swing_yoy = RInt(0)

\* the years of the argument
YearsOf(tab) == {tab[k].year : k \in 1..Len(tab)}

EarliestYear == CHOOSE y \in YearsOf(df_long) :
                    \A z \in YearsOf(df_long) : MetricYearRank(y) <= MetricYearRank(z)

LatestYear == CHOOSE y \in YearsOf(df_long) :
                  \A z \in YearsOf(df_long) : MetricYearRank(z) <= MetricYearRank(y)

\* the D_share of polygon id in a year, NaN without a row
ShareIn(id, year) ==
    IF \E x \in Range(df_long) : x.id = id /\ x.year = year
    THEN (CHOOSE x \in Range(df_long) : x.id = id /\ x.year = year).D_share
    ELSE NaN

\* column swing_vs_<year> holds the D_share minus the polygon's D_share in
\* that year, null for a polygon without a row in that year
SwingVs(r, year) ==
    /\ year \in DOMAIN r.swing_vs
    /\ r.swing_vs[year] = RSub(r.D_share, ShareIn(r.id, year))
    /\ r.year = year => r.swing_vs[year] = RInt(0)

\* C20: the table has the columns swing_vs_<earliest year> and
\* swing_vs_<latest year> of the whole table, each the D_share of the
\* polygon-year minus the same polygon's D_share in that year, hence 0 in
\* the rows of that year
C20_SwingVsReference ==
    MetricsReturned =>
        /\ SamePolygonYears
        /\ \A r \in Range(df) :
              /\ DOMAIN r.swing_vs = {EarliestYear, LatestYear}
              /\ SwingVs(r, EarliestYear)
              /\ SwingVs(r, LatestYear)

\* a table of three years where a polygon moved since the earliest year
\* and another one has no row in the latest year
C20_Witness ==
    /\ MetricsReturned
    /\ EarliestYear = MetricYear(1) /\ LatestYear = MetricYear(3)
    /\ \E r \in Range(df) : r.year = MetricYear(2) /\ r.swing_vs[EarliestYear] = Rat(1, 2)
    /\ \E r \in Range(df) : r.year = EarliestYear /\ r.swing_vs[EarliestYear] = RInt(0)
    /\ \E r \in Range(df) : IsNaN(r.swing_vs[LatestYear])

\* the total of polygon id in a year of the argument
TotalIn(id, year) ==
    (CHOOSE x \in Range(df_long) : x.id = id /\ x.year = year).total

\* C21: turnout is the total of the polygon-year, turnout_change_yoy the
\* total minus the polygon's total in the previous year it has a row for
\* (null in its first year), and turnout_change_yoy_pct that difference
\* over the previous total, null when the previous total is zero
C21_TurnoutChange ==
    (pc = "returned" /\ df # <<>>) =>
        \A r \in Range(df) :
            /\ r.turnout = TotalIn(r.id, r.year)
            /\ IF EarlierRows(r.id, r.year) = {}
               THEN IsNaN(r.turnout_change_yoy) /\ IsNaN(r.turnout_change_yoy_pct)
               ELSE LET prev == PreviousRow(r.id, r.year).total
                    IN  /\ r.turnout_change_yoy = RSub(r.turnout, prev)
                        /\ IF prev = RInt(0)
                           THEN IsNaN(r.turnout_change_yoy_pct)
                           ELSE r.turnout_change_yoy_pct = RDiv(RSub(r.turnout, prev), prev)

\* a polygon with votes after a year without votes, and a polygon whose
\* total grew by one
C21_Witness ==
    /\ pc = "returned" /\ df # <<>>
    /\ \E r \in Range(df) :
          /\ r.turnout_prev = RInt(0)
          /\ r.turnout_change_yoy = RInt(3)
          /\ IsNaN(r.turnout_change_yoy_pct)

\* ------------------------------------------- claims on county_aggregates

\* the sum of a column over the rows of the argument for one year
YearSum(year, col) ==
    LET OfYear(r) == r.year = year
    IN  RSum(Column(SelectSeq(df_long, OfYear), col))

AggOf(year) == {k \in 1..Len(agg) : agg[k].year = year}

\* C22: county_aggregates returns one row for each year of the table, with
\* the sums of D_votes, R_votes and total over the polygons of the year and
\* with D_share the sum of D_votes over the sum of total
C22_CountyVoteWeighted ==
    pc = "aggregated" =>
        /\ Len(agg) = Cardinality(YearsOf(df_long))
        /\ \A y \in YearsOf(df_long) :
              /\ Cardinality(AggOf(y)) = 1
              /\ \A k \in AggOf(y) :
                    /\ agg[k].D_votes = YearSum(y, "D_votes")
                    /\ agg[k].R_votes = YearSum(y, "R_votes")
                    /\ agg[k].total = YearSum(y, "total")
                    /\ agg[k].D_share = RDiv(YearSum(y, "D_votes"), YearSum(y, "total"))

\* a year with an even split of two votes in one polygon and three votes
\* for one party in the other: 4 of 5 votes, where the mean share is 3/4
C22_Witness ==
    /\ pc = "aggregated"
    /\ Len(agg) = NumYears
    /\ \E k \in 1..Len(agg) : agg[k].total = RInt(5) /\ agg[k].D_share = Rat(4, 5)

\* ------------------------------------------- claims on the loaded inputs

ResultsLoaded == <<"results", call.year>> \in loaded

\* C23: every record load_results_csv returns for a file with the required
\* columns has D_votes and R_votes non-negative integers and total their sum
C23_ResultsNonNegative ==
    ResultsLoaded =>
        \A k \in 1..Len(results_df) :
            /\ results_df[k].D_votes \in Nat
            /\ results_df[k].R_votes \in Nat
            /\ results_df[k].total = results_df[k].D_votes + results_df[k].R_votes

\* what the loader does keep: integers, with total their sum
ResultsIntegerSums ==
    ResultsLoaded =>
        \A k \in 1..Len(results_df) :
            /\ results_df[k].D_votes \in Int
            /\ results_df[k].R_votes \in Int
            /\ results_df[k].total = results_df[k].D_votes + results_df[k].R_votes

PastLoaded == <<"shapefile", call.year>> \in loaded

BaseLoaded == <<"shapefile", Str(cfg.base_year)>> \in loaded

\* a dataset on disk that has features
Readable(file) == file.exists /\ file.rows # <<>>

\* C24: load_shapefile does not fail for a dataset whose source CRS is
\* undefined, every collection it returns has the target CRS, and two
\* collections loaded with the same target never raise "CRS mismatch"
C24_LoadedInTargetCrs ==
    /\ PastLoaded => past_gdf.crs = cfg.crs
    /\ BaseLoaded => base_gdf.crs = cfg.crs
    /\ err # "ValueError: CRS mismatch"
    /\ pc \notin {"hz_start", "hz_load"} /\ call.year \in DOMAIN shapefiles
       /\ call.year # Str(cfg.base_year) =>
          /\ Readable(shapefiles[call.year]) => PastLoaded
          /\ PastLoaded /\ Readable(shapefiles[Str(cfg.base_year)]) => BaseLoaded

\* a past dataset without a CRS and a base dataset in another CRS, both
\* loaded and harmonized
C24_Witness ==
    /\ pc = "returned"
    /\ shapefiles[call.year].crs = None
    /\ shapefiles[Str(cfg.base_year)].crs = OtherCrs
    /\ PastLoaded /\ BaseLoaded
    /\ past_gdf.crs = TargetCrs /\ base_gdf.crs = TargetCrs

\* ------------------------------------------------ claims on side effects

\* C26: a call of reallocate_votes_to_base persists no file: its only
\* effect is the table and the crosswalk it returns
C26_NoFilePersisted == files = NoFiles

\* the files are only left alone when the caller passes save_outputs=False
NoFileUnlessSaving == ~call.save_outputs => files = NoFiles

\* ------------------------------- two calls of reallocate_votes_to_base at once

\* the years harmonized side by side
ParYears == {EarlierYear, PastYear}

\* the locals of a call up to the crosswalk: the base-year guard, the three
\* loads and build_crosswalk; nothing here is written
HzLocals(year, c, weight, shapes, results) ==
    LET base_year == Str(c.base_year)
        yr == load_shapefile(shapes[year], c.crs)
        bs == load_shapefile(shapes[base_year], c.crs)
        rs == load_results_csv(results[year], c.id_fields[year])
        xw == build_crosswalk(yr.gdf, bs.gdf, c.id_fields[year], c.id_fields[base_year],
                              EffectiveWeight(weight, c), LoadedBlocks(weight, c),
                              LoadedPopField(weight, c), SliverToleranceOf(c))
        Failed(e) == [err |-> e, base_gdf |-> NoBlocks, results_df |-> <<>>, crosswalk |-> <<>>]
    IN  IF BaseYearError(year, c) # "" THEN Failed(BaseYearError(year, c))
        ELSE IF yr.err # "" THEN Failed(yr.err)
        ELSE IF bs.err # "" THEN Failed(bs.err)
        ELSE IF rs.err # "" THEN Failed(rs.err)
        ELSE IF xw.err # "" THEN Failed(xw.err)
        ELSE [err |-> "", base_gdf |-> bs.gdf, results_df |-> rs.df, crosswalk |-> xw.crosswalk]

\* the table of a call from its crosswalk and results
HzTable(loc, year) ==
    Harmonized(AllocatedByBase(Allocated(CrosswalkWithVotes(loc.crosswalk, loc.results_df))),
               year)

\* one whole call with save_outputs=True and both output keys configured:
\* the error raised and the files after it
reallocate_votes_to_base(year, c, weight, shapes, results, fs) ==
    LET loc == HzLocals(year, c, weight, shapes, results)
        h == HzTable(loc, year)
        hgdf == HarmonizedGdf(loc.base_gdf.rows, h, year)
    IN  IF loc.err # "" THEN [err |-> loc.err, files |-> fs]
        ELSE [err |-> "",
              files |-> Write(Write(Write(fs, CrosswalkCsv(year, c), loc.crosswalk),
                                    GpkgLayer(year, c), hgdf),
                              HarmonizedCsv(year, c), CsvTable(h, hgdf))]

\* a call that has not started
ParStart(w) ==
    [pc |-> "hz_start", err |-> "", weight |-> w, base_gdf |-> NoBlocks, results_df |-> <<>>,
     crosswalk |-> <<>>, harmonized |-> <<>>, harmonized_gdf |-> <<>>, gpkg_mode |-> None,
     raced |-> FALSE]

\* the layers of the GeoPackage at cfg["output"]["harmonized_gpkg"]
GpkgLayers(fs) == {n \in DOMAIN fs : n[1] = "harmonized.gpkg"}

\* a new GeoPackage in the place of the one on disk
GpkgCreated(fs) == [n \in DOMAIN fs \ GpkgLayers(fs) |-> fs[n]]

\* two calls for two past years of one configuration, every input on disk
\* or missing
InitPar ==
    /\ pc = "idle"
    /\ err = ""
    /\ past_gdf = NoBlocks
    /\ base_gdf = NoBlocks
    /\ blocks_gdf = NoBlocks
    /\ xw_args = Args(None, None, None, None, 0)
    /\ past_norm = <<>>
    /\ base_norm = <<>>
    /\ overlay = <<>>
    /\ overlays_run = 0
    /\ low_coverage = {}
    /\ crosswalk = <<>>
    /\ loaded = {}
    /\ results_df = <<>>
    /\ harmonized = <<>>
    /\ harmonized_gdf = <<>>
    /\ files = NoFiles
    /\ call = NoCall
    /\ run = NoRun
    /\ stats = None
    /\ df_long = <<>>
    /\ df = <<>>
    /\ agg = <<>>
    /\ \E there \in [ParYears -> BOOLEAN] :
          shapefiles =
              [y \in ConfiguredYears |->
                  IF y = BaseYear
                  THEN ShapeFile(TargetCrs, "BASE_ID", BaseIds(NumCells, FALSE),
                                 Pieces(1, NumCells, 1..(NumCells - 1)))
                  ELSE IF there[y]
                  THEN ShapeFile(TargetCrs, "PAST_ID", PastIds(1, TRUE), <<1..NumCells>>)
                  ELSE NoFile]
    /\ \E f \in [ParYears -> {NoResults, FixedResults("PAST_ID")}] :
          results_csv = [y \in ConfiguredYears |->
                            IF y = BaseYear THEN FixedResults("BASE_ID") ELSE f[y]]
    /\ \E by \in {IntYear(2024), StrYear("2024")} : cfg = CfgAll(by, OutputKeys)
    /\ par = [y \in ParYears |-> ParStart("area")]

ParUnchanged ==
    UNCHANGED <<xw_vars, shapefiles, results_csv, cfg, call, loaded, results_df, harmonized,
                harmonized_gdf, run, stats, df_long, df, agg>>

\* the guard, the loads and build_crosswalk of the call for year y
ParBuildCrosswalk(y) ==
    /\ par[y].pc = "hz_start"
    /\ LET loc == HzLocals(y, cfg, par[y].weight, shapefiles, results_csv)
       IN  par' = [par EXCEPT ![y].err = loc.err,
                              ![y].base_gdf = loc.base_gdf,
                              ![y].results_df = loc.results_df,
                              ![y].crosswalk = loc.crosswalk,
                              ![y].pc = IF loc.err # "" THEN "raised"
                                        ELSE "hz_save_crosswalk"]
    /\ UNCHANGED files
    /\ ParUnchanged

\* the crosswalk CSV of year y, then the reallocation
ParSaveCrosswalk(y) ==
    /\ par[y].pc = "hz_save_crosswalk"
    /\ files' = Write(files, CrosswalkCsv(y, cfg), par[y].crosswalk)
    /\ LET h == HzTable(par[y], y)
       IN  par' = [par EXCEPT ![y].harmonized = h,
                              ![y].harmonized_gdf = HarmonizedGdf(par[y].base_gdf.rows, h, y),
                              ![y].pc = "hz_save_gpkg"]
    /\ ParUnchanged

\* to_file of year y opens the GeoPackage all years share: it is created
\* when it is not on disk, updated when it is
ParOpenGpkg(y) ==
    /\ par[y].pc = "hz_save_gpkg"
    /\ LET others == {o \in ParYears \ {y} : par[o].pc = "hz_write_gpkg"}
       IN  par' = [o \in ParYears |->
                     IF o = y
                     THEN [par[o] EXCEPT !.pc = "hz_write_gpkg",
                                         !.gpkg_mode = IF GpkgLayers(files) = {} THEN "create"
                                                       ELSE "update",
                                         !.raced = others # {}]
                     ELSE IF o \in others THEN [par[o] EXCEPT !.raced = TRUE]
                     ELSE par[o]]
    /\ UNCHANGED files
    /\ ParUnchanged

\* to_file of year y writes its layer; with another to_file on the same
\* GeoPackage under way the writer may find the database locked
ParWriteLayer(y) ==
    /\ par[y].pc = "hz_write_gpkg"
    /\ \E locked \in {FALSE} \cup {\E o \in ParYears \ {y} : par[o].pc = "hz_write_gpkg"} :
          IF locked
          THEN /\ par' = [par EXCEPT ![y].pc = "raised",
                                     ![y].err = "OperationalError: database is locked"]
               /\ UNCHANGED files
          ELSE /\ files' = Write(IF par[y].gpkg_mode = "create" THEN GpkgCreated(files)
                                 ELSE files,
                                 GpkgLayer(y, cfg), par[y].harmonized_gdf)
               /\ par' = [par EXCEPT ![y].pc = "hz_save_csv"]
    /\ ParUnchanged

\* the harmonized CSV of year y, then the return
ParSaveCsv(y) ==
    /\ par[y].pc = "hz_save_csv"
    /\ files' = Write(files, HarmonizedCsv(y, cfg),
                      CsvTable(par[y].harmonized, par[y].harmonized_gdf))
    /\ par' = [par EXCEPT ![y].pc = "returned"]
    /\ ParUnchanged

NextPar ==
    \E y \in ParYears :
        \/ ParBuildCrosswalk(y)
        \/ ParSaveCrosswalk(y)
        \/ ParOpenGpkg(y)
        \/ ParWriteLayer(y)
        \/ ParSaveCsv(y)

SpecPar == InitPar /\ [][NextPar]_vars

\* ------------------------------------------------ claims on parallel calls

ParDone == \A y \in ParYears : par[y].pc \in {"returned", "raised"}

\* the two calls one after the other
SequentialRun ==
    LET first == reallocate_votes_to_base(EarlierYear, cfg, "area", shapefiles, results_csv,
                                          NoFiles)
        second == reallocate_votes_to_base(PastYear, cfg, "area", shapefiles, results_csv,
                                           first.files)
    IN  [files |-> second.files,
         err |-> [y \in ParYears |-> IF y = EarlierYear THEN first.err ELSE second.err]]

ParAsSequential ==
    /\ files = SequentialRun.files
    /\ \A y \in ParYears : par[y].err = SequentialRun.err[y]

\* C25: two years harmonized in parallel share no mutable state: under any
\* interleaving the files written and the outcome of each call are those of
\* the sequential run
C25_ParallelAsSequential == ParDone => ParAsSequential

\* the calls whose to_file never overlapped do leave the sequential result
SerializedAsSequential ==
    ParDone /\ (\A y \in ParYears : ~par[y].raced) => ParAsSequential

\* ------------------------------------------- claims on repeated crosswalks

\* a second call of build_crosswalk on the collections as they are now
BuiltAgain ==
    build_crosswalk(past_gdf, base_gdf, xw_args.past_id, xw_args.base_id, xw_args.weight,
                    blocks_gdf, xw_args.block_pop_field, xw_args.sliver_tolerance)

InputsUntouched == UNCHANGED <<past_gdf, base_gdf, blocks_gdf>>

YearNumber(y) ==
    CASE y = "2016" -> 2016 [] y = "2020" -> 2020 [] y = "2024" -> 2024 [] OTHER -> 0

\* the calls so far took the non-base years in ascending order, once each
AscendingOnce ==
    /\ \A i \in 1..Len(run.attempted) : \A j \in 1..Len(run.attempted) :
          i < j => YearNumber(run.attempted[i]) < YearNumber(run.attempted[j])
    /\ Range(run.attempted) \subseteq DOMAIN shapefiles \ {Str(cfg.base_year)}
    /\ LoopOver => Range(run.attempted) = DOMAIN shapefiles \ {Str(cfg.base_year)}

\* reallocate_votes_to_base is never called for the base year
BaseYearNotPassed == call # NoCall => call.year # Str(cfg.base_year)

BaseYearSaved ==
    \/ GpkgLayer(Str(cfg.base_year), cfg) \in DOMAIN files
    \/ HarmonizedCsv(Str(cfg.base_year), cfg) \in DOMAIN files

\* the base year's outputs exist only once every non-base year was
\* attempted and its call is over
BaseYearLast ==
    BaseYearSaved =>
        /\ run.phase = "returned"
        /\ Range(run.attempted) = DOMAIN shapefiles \ {Str(cfg.base_year)}
        /\ FinishedYears = Range(run.attempted)

\* the error of _save_base_year_data is the error of harmonize_all
SaveErrorPropagates ==
    LoopOver =>
        LET e == _save_base_year_data(cfg, shapefiles, results_csv, files).err
        IN  /\ run.err = e
            /\ run.phase = "raised" <=> e # ""
            /\ e # "" => ~BaseYearSaved

\* C28: harmonize_all attempts each non-base year once, in ascending order,
\* never calls reallocate_votes_to_base for the base year, writes the base
\* year's layer and CSV only after every non-base year was attempted, and
\* lets a failure of that save propagate
C28_DriverOrder == AscendingOnce /\ BaseYearNotPassed /\ BaseYearLast /\ SaveErrorPropagates

\* both non-base years failed and the base year was saved after them
C28_Witness ==
    /\ run.phase = "returned"
    /\ run.attempted = <<"2016", "2020">>
    /\ LoggedYears = {"2016", "2020"}
    /\ BaseYearSaved

\* --------------------------------------------- claims on the rounded total

\* C29 as stated: every harmonized record has total = D_votes + R_votes
\* after the rounding
C29_TotalIsSum ==
    pc = "returned" =>
        \A k \in 1..Len(harmonized_gdf) :
            harmonized_gdf[k].total = harmonized_gdf[k].D_votes + harmonized_gdf[k].R_votes

\* an aggregated value without a fractional part
Whole(q) == IsFinite(q) /\ q.n % q.d = 0

\* C29: after the rounding the total of a harmonized record differs from
\* D_votes + R_votes by at most one vote, and equals it where the allocated
\* D_votes and R_votes are both whole
C29_TotalWithinOneOfSum ==
    pc = "returned" =>
        /\ \A k \in 1..Len(harmonized_gdf) :
              Abs(harmonized_gdf[k].total
                  - (harmonized_gdf[k].D_votes + harmonized_gdf[k].R_votes)) <= 1
        /\ \A j \in 1..Len(harmonized) :
              Whole(UnroundedByBase[j].D_votes) /\ Whole(UnroundedByBase[j].R_votes) =>
                  harmonized[j].total = harmonized[j].D_votes + harmonized[j].R_votes

\* a returned record whose rounded total is not the sum of its rounded
\* D_votes and R_votes, next to one where it is
C29_Witness ==
    /\ pc = "returned"
    /\ \E j \in 1..Len(harmonized) :
          /\ ~Whole(UnroundedByBase[j].D_votes)
          /\ harmonized[j].total # harmonized[j].D_votes + harmonized[j].R_votes
    /\ \E j \in 1..Len(harmonized) :
          /\ harmonized[j].total > 0
          /\ harmonized[j].total = harmonized[j].D_votes + harmonized[j].R_votes

\* --------------------------------------- claims on results without crosswalk

CrosswalkPast == {crosswalk[k].past_id : k \in 1..Len(crosswalk)}

\* the past polygons with a Results Record and no crosswalk row
DroppedPast == {results_df[k].precinct_id : k \in 1..Len(results_df)} \ CrosswalkPast

\* the votes of the results rows whose identifier appears in the crosswalk
KeptVotes(col) ==
    LET Kept(r) == r.precinct_id \in CrosswalkPast
    IN  SumOf(SelectSeq(results_df, Kept), col)

UnroundedSum(col) == RSum(Column(UnroundedByBase, col))

\* C30: the votes of a past polygon with a Results Record and no crosswalk
\* row go to no base polygon: before the rounding the harmonized D_votes sum
\* to the D_votes of the results rows whose identifier is in the crosswalk,
\* and the call does not fail over the dropped polygon
C30_DroppedVotesVanish ==
    DroppedPast # {} =>
        /\ Reallocated => UnroundedSum("D_votes") = RInt(KeptVotes("D_votes"))
        /\ crosswalk # <<>> /\ pc = "raised" => err = "KeyError: output"

\* the same for the area-weighted crosswalk, whose frac sum to 1
AreaDroppedVotesVanish == call.weight = "area" => C30_DroppedVotesVanish

\* and for every crosswalk without an undefined frac
DefinedDroppedVotesVanish ==
    (\A k \in 1..Len(crosswalk) : ~IsNaN(crosswalk[k].frac)) => C30_DroppedVotesVanish

\* an area-weighted call that dropped a past polygon with votes and returned
DroppedWithVotes ==
    /\ pc = "returned"
    /\ call.weight = "area"
    /\ crosswalk # <<>>
    /\ \E k \in 1..Len(results_df) :
          results_df[k].precinct_id \in DroppedPast /\ results_df[k].D_votes > 0
    /\ KeptVotes("D_votes") > 0

====
